---------------------------- MODULE Spec2Model ----------------------------
(***************************************************************************)
(* Bloco: block programmer / board reader / robot.                         *)
(*                                                                         *)
(* This module models the robot firmware (src/robo/main/main.c): the       *)
(* ESP-NOW receive callback (program transport, pairing and unpair         *)
(* messages), the BOOT-button interrupt and the pairing state machine of   *)
(* the main loop.                                                          *)
(*                                                                         *)
(* Conventions                                                             *)
(*  - A MAC address is a string; ZERO_MAC is the all-zero address written  *)
(*    by memset(paired_mac, 0, 6), ESPNOW_BROADCAST_MAC the all-ones one.  *)
(*  - A block_data_t record is represented by its type byte; 0 is the      *)
(*    content of a zero-initialised static array slot.                     *)
(*  - The receive callback runs to completion (interrupt-like context);    *)
(*    the main loop is split at the places where it reads or writes data   *)
(*    shared with the callback, and at its vTaskDelay calls.               *)
(*  - Time is kept as ages: elapsed_ms is esp_timer_get_time() minus       *)
(*    pair_start_time, held_isr the time since button_press_time, held_poll*)
(*    the time since button_hold_start.  Ages saturate at the threshold    *)
(*    they are compared with, which loses nothing the code can observe.    *)
(*  - msg, out and the g_* variables are observation variables: the last   *)
(*    message handed to the callback, the messages the last step sent,     *)
(*    and the history the claims speak about.  No action reads them.       *)
(***************************************************************************)
EXTENDS Integers, Sequences, FiniteSets, TLC

VARIABLES
    \* robo/main/main.c statics
    paired_mac, has_paired_mac,
    pairing_requested, pairing_active, pairing_success,
    rx_blocks, rx_count, rx_expected, rx_in_progress,
    program_ready_sem, exec_blocks, exec_count,
    \* external collaborators of the robot
    nvs_paired_mac,         \* NVS blob "paired_mac" ("none" when the key is absent)
    peers,                  \* ESP-NOW peer table
    \* app_main locals and position
    main_pc, button_was_pressed,
    \* environment: button level and ages
    button_down, held_isr, held_poll, elapsed_ms,
    \* observation
    msg, out, g_src, g_n, g_sent, g_nblk, g_clean,
    g_presses, g_entries, g_accepted, g_acked, g_old,
    \* which firmware the behaviour follows: "robo" or "board"
    role,
    \* a second robot next to the one the robot variables describe
    other,
    \* board/main/main.c statics
    target_mac, board_has_paired_mac,
    board_pairing_requested, board_pairing_active, board_pairing_success,
    send_requested,
    eeprom_present, data_valid, eeprom_data,
    \* external collaborators of the board
    board_nvs_paired_mac,   \* NVS blob "paired_mac" of the board
    board_peers,            \* ESP-NOW peer table of the board
    token,                  \* the token plugged into each channel (NoBlock: none)
    \* app_main locals and position of the board
    board_pc, board_button_was_pressed, send_blocks, send_i,
    \* environment of the board: button level and ages
    board_button_down, board_held_isr, board_held_poll, board_elapsed_ms,
    bcast_age_ms, poll_age_ms,
    \* executor task of the robot (robo/main/main.c, robo/main/executor.c)
    task_pc,                \* "wait" (xSemaphoreTake), "call", "run"
    stack,                  \* the executor_run invocations in progress, outermost first
    motor,                  \* what the motor driver was last told
    \* observation of the executor
    cmds,                   \* the actuator calls and delays of the last step
    disp,                   \* index in exec_blocks of the block the last step dispatched
    g_ended, g_run_prog, g_credit, g_acc_prog,
    \* expression animator of the robot (robo/main/eyes.c)
    eyes,                   \* the statics of eyes.c
    eyes_pc,                \* position of eyes_task inside eyes_tick
    eyes_call,              \* a public call another task has not returned from
    g_eyes,                 \* observation of the animator
    \* block programmer (block/main/programmer.c, led.c) and the token in its slot
    prg,                    \* serial_counter, mac_bytes, current_state, the token
    g_prg                   \* observation of the last call

statevars == <<paired_mac, has_paired_mac, pairing_requested, pairing_active,
               pairing_success, nvs_paired_mac, peers>>
rxvars    == <<rx_blocks, rx_count, rx_expected, rx_in_progress,
               program_ready_sem, exec_blocks, exec_count>>
loopvars  == <<main_pc, button_was_pressed>>
envvars   == <<button_down, held_isr, held_poll, elapsed_ms>>
ghostrx   == <<g_src, g_n, g_sent, g_nblk, g_clean>>
ghostpair == <<g_presses, g_entries, g_accepted, g_acked, g_old>>
boardstate  == <<target_mac, board_has_paired_mac, board_pairing_requested,
                 board_pairing_active, board_pairing_success, send_requested,
                 board_nvs_paired_mac, board_peers>>
boardeeprom == <<eeprom_present, data_valid, eeprom_data, token>>
boardloop   == <<board_pc, board_button_was_pressed, send_blocks, send_i>>
boardenv    == <<board_button_down, board_held_isr, board_held_poll,
                 board_elapsed_ms, bcast_age_ms, poll_age_ms>>
boardvars   == <<boardstate, boardeeprom, boardloop, boardenv>>
taskvars  == <<task_pc, stack, motor, cmds, disp, g_ended, g_run_prog>>
ghosthand == <<g_credit, g_acc_prog>>
eyesvars  == <<eyes, eyes_pc, eyes_call, g_eyes>>
\* the parts of the product that run on their own
prgvars   == <<prg, g_prg>>
othervars == <<eyesvars, prgvars>>
robovars  == <<statevars, rxvars, loopvars, envvars, ghostrx>>
\* what the robot's callback, interrupt and main loop never touch
notrobo   == <<role, other, boardvars, taskvars, ghosthand, othervars>>
vars      == <<statevars, rxvars, loopvars, envvars, msg, out, ghostrx, ghostpair,
               role, other, boardvars, taskvars, ghosthand, othervars>>

----------------------------------------------------------------------------
(* Program constants                                                       *)

ESPNOW_MAX_BLOCKS == 8
MSG_PROGRAM_START == 1
MSG_BLOCK_DATA    == 2
MSG_PROGRAM_END   == 3
MSG_PROGRAM_ACK   == 4
MSG_PAIR_REQUEST  == 16
MSG_PAIR_ACK      == 17
MSG_UNPAIR        == 18

\* sizeof of the packed message structs
SIZEOF_PROGRAM_START == 2
SIZEOF_BLOCK_MSG     == 34
SIZEOF_PROGRAM_END   == 1
SIZEOF_PROGRAM_ACK   == 2
SIZEOF_PAIR_REQUEST  == 7
SIZEOF_PAIR_ACK      == 7
SIZEOF_UNPAIR        == 1

BLOCK_BEGIN         == 1
BLOCK_END           == 2
BLOCK_FORWARD       == 16
BLOCK_BACKWARD      == 17
BLOCK_TURN_RIGHT    == 18
BLOCK_TURN_LEFT     == 19
BLOCK_SHAKE         == 20
BLOCK_SPIN          == 21
BLOCK_REPEAT        == 32
BLOCK_END_REPEAT    == 33
BLOCK_IF            == 34
BLOCK_END_IF        == 35
BLOCK_BEEP          == 48
BLOCK_SING          == 49
BLOCK_PLAY_SQUARE   == 52
BLOCK_WHITE_LIGHT_ON == 64
BLOCK_BLUE_LIGHT_ON == 66
BLOCK_WAIT_FOR_CLAP == 80
BLOCK_PARAM_2       == 96
BLOCK_PARAM_3       == 97
BLOCK_PARAM_4       == 98
BLOCK_PARAM_FOREVER == 99
BLOCK_EYES_NORMAL   == 128
BLOCK_EYES_FOCUSED  == 135
BLOCK_EYES_LOOK_CENTER == 136
BLOCK_EYES_LOOK_DOWN   == 140

\* robo/main/executor.c
DEFAULT_MOVE_MS    == 1000
FOREVER_MOVE_MS    == 30000
MOVE_PAUSE_MS      == 100
SPIN_MS            == 2000
SHAKE_CYCLE_MS     == 300
SHAKE_CYCLES       == 4
BEEP_MS            == 200
SOUND_MS           == 500
CLAP_WAIT_MS       == 2000
FOREVER_ITERATIONS == 1000

LONG_PRESS_US   == 4000000
PAIR_TIMEOUT_MS == 30000

\* board/main/main.c
NUM_EEPROMS      == 2
POLL_INTERVAL_MS == 1000
PAIR_BCAST_MS    == 500

UINT8 == 256

ESPNOW_BROADCAST_MAC == "FF:FF:FF:FF:FF:FF"
ZERO_MAC == "00:00:00:00:00:00"
MY_MAC   == "robo"
BOARD_MAC == "board"

----------------------------------------------------------------------------
(* Bounds of the model                                                     *)

\* BlockData messages delivered per transfer (between two ProgramStart)
MaxRxCount == 3
\* BlockData messages delivered per transfer when one transfer is flooded
MaxFlood == 256
\* button presses per behaviour
MaxPresses == 1
\* granularity of the clock, in milliseconds
TimeStepMs == 10000

\* button presses per behaviour of the board
MaxBoardPresses == 2
\* granularity of the board's clock, in milliseconds
BoardTimeStepMs == 2000

\* accepted programs not yet run that the observation counts
MaxCredit == 2
\* length of the programs handed to the executor on its own
MaxProgLen == 4
\* BlockData messages per transfer while the executor task runs alongside
MaxHandoffBlocks == 2
\* public calls made to the animator
MaxEyeCalls == 2
\* calls made to the programmer
MaxPrgCalls == 3
\* bytes of the token altered between two calls
MaxAlters == 1
\* public calls made to the animator within sixty seconds of ticks
MaxIdleCalls == 1
\* ticks counted since the last call to the animator
MaxSince == 16
\* length of the programs of nested repeats
MaxNestLen == 7
\* length of the programs of repeats and parameters
MaxRepeatLen == 4
\* length of the programs of movements and parameters
MaxMoveLen == 3

BoardMacs == {"A", "B"}
RobotMacs == {"R", "S"}
Channels  == 0 .. (NUM_EEPROMS - 1)
Blocks    == {BLOCK_BEGIN, BLOCK_FORWARD}
ZeroBlock == 0
NoBlock   == UINT8          \* not a byte value: no record
Slots     == 0 .. (ESPNOW_MAX_BLOCKS - 1)

NoMsg == [type |-> 0, src |-> "none", len |-> 0]
\* there is no second robot
Alone == [me |-> MY_MAC]

Saturate(age, limit) == IF age > limit THEN limit ELSE age

----------------------------------------------------------------------------
(* Messages                                                                *)

ProgramStartMsg(src, count, len) ==
    [type |-> MSG_PROGRAM_START, src |-> src, len |-> len, block_count |-> count]
BlockDataMsg(src, index, block, len) ==
    [type |-> MSG_BLOCK_DATA, src |-> src, len |-> len, index |-> index, block |-> block]
ProgramEndMsg(src, len) ==
    [type |-> MSG_PROGRAM_END, src |-> src, len |-> len]
PairRequestMsg(src, mac, len) ==
    [type |-> MSG_PAIR_REQUEST, src |-> src, len |-> len, mac |-> mac]
UnpairMsg(src, len) ==
    [type |-> MSG_UNPAIR, src |-> src, len |-> len]

\* what the robot sends: esp_now_send(dest, payload)
ProgramAck(dest, count) == [type |-> MSG_PROGRAM_ACK, dest |-> dest, block_count |-> count]
PairAck(dest, mac)      == [type |-> MSG_PAIR_ACK, dest |-> dest, mac |-> mac]
Unpair(dest)            == [type |-> MSG_UNPAIR, dest |-> dest]

\* what the board receives
PairAckMsg(src, mac, len) ==
    [type |-> MSG_PAIR_ACK, src |-> src, len |-> len, mac |-> mac]
ProgramAckMsg(src, count, len) ==
    [type |-> MSG_PROGRAM_ACK, src |-> src, len |-> len, block_count |-> count]

\* what the board sends: esp_now_send(dest, payload)
PairRequest(dest, mac)        == [type |-> MSG_PAIR_REQUEST, dest |-> dest, mac |-> mac]
ProgramStart(dest, count)     == [type |-> MSG_PROGRAM_START, dest |-> dest, block_count |-> count]
BlockData(dest, index, block) == [type |-> MSG_BLOCK_DATA, dest |-> dest, index |-> index, block |-> block]
ProgramEnd(dest)              == [type |-> MSG_PROGRAM_END, dest |-> dest]

IsProgramMsg(m) == m.type \in {MSG_PROGRAM_START, MSG_BLOCK_DATA, MSG_PROGRAM_END}

----------------------------------------------------------------------------
(* espnow_recv_cb of the robot                                             *)

\* mutants of the MAC filter: the source address is not compared; an unpaired
\* robot accepts from any board
PassesMacFilter_NoSrcCheck(src) ==
    pairing_active \/ has_paired_mac

PassesMacFilter_AnyWhenUnpaired(src) ==
    pairing_active \/ ~has_paired_mac \/ src = paired_mac

\* MAC filtering: must be paired and from the correct board (except during pairing)
PassesMacFilter(src) ==
    pairing_active \/ (has_paired_mac /\ src = paired_mac)

\* "Program too large, capping"
CapCount(count) ==
    IF count > ESPNOW_MAX_BLOCKS THEN ESPNOW_MAX_BLOCKS ELSE count

\* mutant: the completeness test is off by one
ProgramComplete_OffByOne == rx_count + 1 >= rx_expected

\* the completeness test of MSG_PROGRAM_END
ProgramComplete == rx_count >= rx_expected

\* mutant: the copy stops one record short
CopyBlocks_OneShort(dst, src, n) ==
    [i \in Slots |-> IF i < n - 1 THEN src[i] ELSE dst[i]]

\* memcpy(exec_blocks, rx_blocks, sizeof(block_data_t) * rx_expected)
CopyBlocks(dst, src, n) ==
    [i \in Slots |-> IF i < n THEN src[i] ELSE dst[i]]

\* a return that leaves every static untouched and sends nothing
Ignore == /\ UNCHANGED <<statevars, rxvars>>
          /\ out' = <<>>

\* mutant: the pairing_active test is missing
OnPairRequest_NoActiveCheck(m) ==
    IF m.len < SIZEOF_PAIR_REQUEST
    THEN Ignore
    ELSE /\ paired_mac' = m.mac
         /\ has_paired_mac' = TRUE
         /\ peers' = peers \cup {m.mac}
         /\ out' = <<PairAck(m.mac, MY_MAC)>>
         /\ pairing_success' = TRUE
         /\ UNCHANGED <<pairing_requested, pairing_active, nvs_paired_mac, rxvars>>

OnPairRequest(m) ==
    IF ~pairing_active \/ m.len < SIZEOF_PAIR_REQUEST
    THEN Ignore
    ELSE /\ paired_mac' = m.mac
         /\ has_paired_mac' = TRUE
         /\ peers' = peers \cup {m.mac}
         /\ out' = <<PairAck(m.mac, MY_MAC)>>
         /\ pairing_success' = TRUE
         /\ UNCHANGED <<pairing_requested, pairing_active, nvs_paired_mac, rxvars>>

OnUnpair(m) ==
    IF m.src = paired_mac
    THEN /\ paired_mac' = ZERO_MAC
         /\ has_paired_mac' = FALSE
         /\ nvs_paired_mac' = "none"
         /\ out' = <<>>
         /\ UNCHANGED <<pairing_requested, pairing_active, pairing_success, peers, rxvars>>
    ELSE Ignore

\* mutant: the received counter survives a new ProgramStart
OnProgramStart_KeepCount(m) ==
    IF m.len < SIZEOF_PROGRAM_START
    THEN Ignore
    ELSE /\ rx_expected' = CapCount(m.block_count)
         /\ rx_count' = rx_count
         /\ rx_in_progress' = TRUE
         /\ out' = <<>>
         /\ UNCHANGED <<statevars, rx_blocks, program_ready_sem, exec_blocks, exec_count>>

OnProgramStart(m) ==
    IF m.len < SIZEOF_PROGRAM_START
    THEN Ignore
    ELSE /\ rx_expected' = CapCount(m.block_count)
         /\ rx_count' = 0
         /\ rx_in_progress' = TRUE
         /\ out' = <<>>
         /\ UNCHANGED <<statevars, rx_blocks, program_ready_sem, exec_blocks, exec_count>>

\* mutant: a record whose slot is already filled is not counted again
OnBlockData_CountsDistinct(m) ==
    IF ~rx_in_progress \/ m.len < SIZEOF_BLOCK_MSG \/ ~(m.index < ESPNOW_MAX_BLOCKS)
    THEN Ignore
    ELSE /\ rx_blocks' = [rx_blocks EXCEPT ![m.index] = m.block]
         /\ rx_count' = IF rx_blocks[m.index] = ZeroBlock
                         THEN (rx_count + 1) % UINT8 ELSE rx_count
         /\ out' = <<>>
         /\ UNCHANGED <<statevars, rx_expected, rx_in_progress,
                        program_ready_sem, exec_blocks, exec_count>>

OnBlockData(m) ==
    IF ~rx_in_progress \/ m.len < SIZEOF_BLOCK_MSG \/ ~(m.index < ESPNOW_MAX_BLOCKS)
    THEN Ignore
    ELSE /\ rx_blocks' = [rx_blocks EXCEPT ![m.index] = m.block]
         /\ rx_count' = (rx_count + 1) % UINT8
         /\ out' = <<>>
         /\ UNCHANGED <<statevars, rx_expected, rx_in_progress,
                        program_ready_sem, exec_blocks, exec_count>>

\* mutant: an incomplete transfer stays open after its ProgramEnd
OnProgramEnd_StaysOpen(m) ==
    IF ~rx_in_progress
    THEN Ignore
    ELSE /\ rx_in_progress' = ~ProgramComplete
         /\ IF ProgramComplete
            THEN /\ peers' = peers \cup {m.src}
                 /\ out' = <<ProgramAck(m.src, rx_expected)>>
                 /\ exec_blocks' = CopyBlocks(exec_blocks, rx_blocks, rx_expected)
                 /\ exec_count' = rx_expected
                 /\ program_ready_sem' = 1
            ELSE /\ out' = <<>>
                 /\ UNCHANGED <<peers, exec_blocks, exec_count, program_ready_sem>>
         /\ UNCHANGED <<paired_mac, has_paired_mac, pairing_requested, pairing_active,
                        pairing_success, nvs_paired_mac, rx_blocks, rx_count, rx_expected>>

OnProgramEnd(m) ==
    IF ~rx_in_progress
    THEN Ignore
    ELSE /\ rx_in_progress' = FALSE
         /\ IF ProgramComplete
            THEN /\ peers' = peers \cup {m.src}
                 /\ out' = <<ProgramAck(m.src, rx_expected)>>
                 /\ exec_blocks' = CopyBlocks(exec_blocks, rx_blocks, rx_expected)
                 /\ exec_count' = rx_expected
                 /\ program_ready_sem' = 1
            ELSE /\ out' = <<>>
                 /\ UNCHANGED <<peers, exec_blocks, exec_count, program_ready_sem>>
         /\ UNCHANGED <<paired_mac, has_paired_mac, pairing_requested, pairing_active,
                        pairing_success, nvs_paired_mac, rx_blocks, rx_count, rx_expected>>

espnow_recv_cb(m) ==
    IF m.len < 1 THEN Ignore
    ELSE IF m.type = MSG_PAIR_REQUEST THEN OnPairRequest(m)
    ELSE IF m.type = MSG_UNPAIR /\ has_paired_mac THEN OnUnpair(m)
    ELSE IF ~PassesMacFilter(m.src) THEN Ignore
    ELSE IF m.type = MSG_PROGRAM_START THEN OnProgramStart(m)
    ELSE IF m.type = MSG_BLOCK_DATA THEN OnBlockData(m)
    ELSE IF m.type = MSG_PROGRAM_END THEN OnProgramEnd(m)
    ELSE Ignore

----------------------------------------------------------------------------
(* History of the transfer in progress (observation only)                  *)

\* the message reaches the switch statement of the callback
Processed(m) == m.len >= 1 /\ IsProgramMsg(m) /\ PassesMacFilter(m.src)

\* g_src, g_n: source and block_count of the most recent accepted ProgramStart
\* g_sent[i]: the record of the last BlockData with index i processed since
\* g_nblk:    the number of BlockData messages processed since
\* g_clean:   since that ProgramStart the callback processed nothing but
\*            BlockData from g_src, with pairwise distinct indices
ObserveTransfer(m) ==
    IF ~Processed(m) THEN UNCHANGED ghostrx
    ELSE IF m.type = MSG_PROGRAM_START /\ m.len >= SIZEOF_PROGRAM_START
    THEN /\ g_src' = m.src
         /\ g_n' = m.block_count
         /\ g_sent' = [i \in Slots |-> NoBlock]
         /\ g_nblk' = 0
         /\ g_clean' = TRUE
    ELSE IF m.type = MSG_BLOCK_DATA
    THEN /\ g_nblk' = g_nblk + 1
         /\ g_clean' = (/\ g_clean
                        /\ rx_in_progress
                        /\ m.src = g_src
                        /\ m.len >= SIZEOF_BLOCK_MSG
                        /\ m.index \in Slots
                        /\ g_sent[m.index] = NoBlock)
         /\ g_sent' = IF m.len >= SIZEOF_BLOCK_MSG /\ m.index \in Slots
                      THEN [g_sent EXCEPT ![m.index] = m.block]
                      ELSE g_sent
         /\ UNCHANGED <<g_src, g_n>>
    ELSE IF m.type = MSG_PROGRAM_END /\ rx_in_progress
    THEN UNCHANGED ghostrx
    ELSE \* a ProgramEnd outside a transfer, or a ProgramStart too short
         /\ g_clean' = FALSE
         /\ UNCHANGED <<g_src, g_n, g_sent, g_nblk>>

\* g_presses:  button presses so far
\* g_entries:  entries into pairing mode since the last press edge
\* g_old:      the peer held when the current pairing cycle was entered
\* g_accepted: a PairRequest was accepted in the current pairing cycle
\* g_acked:    the addresses acknowledged in the current pairing cycle
ObservePairing(m) ==
    IF m.type = MSG_PAIR_REQUEST /\ m.len >= SIZEOF_PAIR_REQUEST /\ pairing_active
    THEN /\ g_accepted' = TRUE
         /\ g_acked' = g_acked \cup {m.mac}
         /\ UNCHANGED <<g_presses, g_entries, g_old>>
    ELSE UNCHANGED ghostpair

\* the message completes a transfer: the callback hands a program over
Accepts(m) ==
    /\ Processed(m) /\ m.type = MSG_PROGRAM_END
    /\ ~(m.type = MSG_UNPAIR /\ has_paired_mac)
    /\ rx_in_progress /\ ProgramComplete

\* g_acc_prog: the records of the most recently accepted program, as they
\*             stood in the receive buffer when it was accepted
\* g_credit:   accepted programs minus runs started (counted up to MaxCredit)
ObserveHandoff(m) ==
    IF Accepts(m)
    THEN /\ g_acc_prog' = [i \in 1 .. rx_expected |-> rx_blocks[i - 1]]
         /\ g_credit' = Saturate(g_credit + 1, MaxCredit)
    ELSE UNCHANGED ghosthand

\* esp_now_register_recv_cb(espnow_recv_cb): the stack hands one received
\* frame to the callback
\* the callback runs with frame m
Handed(m) ==
    /\ espnow_recv_cb(m)
    /\ ObserveTransfer(m)
    /\ msg' = m
    /\ ObservePairing(m)
    /\ ObserveHandoff(m)
    /\ UNCHANGED <<loopvars, envvars>>
    /\ UNCHANGED <<role, boardvars, taskvars, othervars>>

Deliver(m) == Handed(m) /\ UNCHANGED other

----------------------------------------------------------------------------
(* The receive path on its own: every message sequence, from each pairing  *)
(* configuration the robot can be in when a frame arrives                  *)

\* program sizes and block indices exercised: programs of up to two blocks,
\* one oversize count and one out-of-range index
Counts  == {0, 1, 2, ESPNOW_MAX_BLOCKS + 1}
Indices == {0, 1, ESPNOW_MAX_BLOCKS}

\* the paired board "A" sends every program message; a second device "B"
\* sends one message of each kind
TransportMsgs ==
    {ProgramStartMsg("A", c, SIZEOF_PROGRAM_START) : c \in Counts}
    \cup {BlockDataMsg("A", i, b, SIZEOF_BLOCK_MSG) : i \in Indices, b \in Blocks}
    \cup {ProgramEndMsg(s, SIZEOF_PROGRAM_END) : s \in BoardMacs}
    \cup {ProgramStartMsg("B", 1, SIZEOF_PROGRAM_START),
          BlockDataMsg("B", 0, BLOCK_FORWARD, SIZEOF_BLOCK_MSG)}

PairingMsgs ==
    {PairRequestMsg(s, s, SIZEOF_PAIR_REQUEST) : s \in BoardMacs}
    \cup {UnpairMsg(s, SIZEOF_UNPAIR) : s \in BoardMacs}

InitRx ==
    /\ rx_blocks = [i \in Slots |-> ZeroBlock]
    /\ rx_count = 0
    /\ rx_expected = 0
    /\ rx_in_progress = FALSE
    /\ program_ready_sem = 0
    /\ exec_blocks = [i \in Slots |-> ZeroBlock]
    /\ exec_count = 0

InitObservation ==
    /\ msg = NoMsg
    /\ out = <<>>
    /\ g_src = "none"
    /\ g_n = 0
    /\ g_sent = [i \in Slots |-> NoBlock]
    /\ g_nblk = 0
    /\ g_clean = FALSE
    /\ g_presses = 0
    /\ g_entries = 0
    /\ g_accepted = FALSE
    /\ g_acked = {}
    /\ g_old = "none"

InitLoop ==
    /\ main_pc = "poll"
    /\ button_was_pressed = FALSE
    /\ button_down = FALSE
    /\ held_isr = 0
    /\ held_poll = 0
    /\ elapsed_ms = 0

\* load_paired_mac at boot: the NVS key is absent, or holds a board's address
InitBoot ==
    /\ nvs_paired_mac \in {"none"} \cup BoardMacs
    /\ has_paired_mac = (nvs_paired_mac # "none")
    /\ paired_mac = IF nvs_paired_mac # "none" THEN nvs_paired_mac ELSE ZERO_MAC
    /\ peers = {}
    /\ pairing_requested = FALSE
    /\ pairing_active = FALSE
    /\ pairing_success = FALSE

\* statics and locals of the board before wifi_espnow_init
\* the animator is not part of the behaviour
NoEyes == [s_expr |-> "none"]
NoCall == [fn |-> "none"]
\* eyes_task between two frames
FramePc == [at |-> "frame"]

EyesOff ==
    /\ eyes = NoEyes
    /\ eyes_pc = [at |-> "off"]
    /\ eyes_call = NoCall
    /\ g_eyes = NoEyes

NoProgrammer == [current_state |-> "none"]

ProgrammerOff ==
    /\ prg = NoProgrammer
    /\ g_prg = NoProgrammer

OthersOff == EyesOff /\ ProgrammerOff

\* no block: the last step dispatched none
NoDispatch == ESPNOW_MAX_BLOCKS

\* app_main: program_ready_sem = xSemaphoreCreateBinary(); motor_init() leaves
\* the motors stopped; the executor task starts at xSemaphoreTake
InitTask ==
    /\ task_pc = "wait"
    /\ stack = <<>>
    /\ motor = "stop"
    /\ cmds = <<>>
    /\ disp = NoDispatch
    /\ g_ended = FALSE
    /\ g_run_prog = <<>>
    /\ g_credit = 0
    /\ g_acc_prog = <<>>

InitBoardStatics ==
    /\ board_pairing_requested = FALSE
    /\ board_pairing_active = FALSE
    /\ board_pairing_success = FALSE
    /\ send_requested = FALSE
    /\ eeprom_present = [ch \in Channels |-> FALSE]
    /\ data_valid = [ch \in Channels |-> FALSE]
    /\ eeprom_data = [ch \in Channels |-> ZeroBlock]
    /\ board_pc = "poll"
    /\ board_button_was_pressed = FALSE
    /\ poll_age_ms = 0
    /\ send_blocks = <<>>
    /\ send_i = 0
    /\ board_button_down = FALSE
    /\ board_held_isr = 0
    /\ board_held_poll = 0
    /\ board_elapsed_ms = 0
    /\ bcast_age_ms = 0

\* load_paired_mac and the peers added by wifi_espnow_init
InitBoardBoot ==
    /\ board_has_paired_mac = (board_nvs_paired_mac # "none")
    /\ target_mac = IF board_nvs_paired_mac # "none"
                    THEN board_nvs_paired_mac ELSE ESPNOW_BROADCAST_MAC
    /\ board_peers = {ESPNOW_BROADCAST_MAC}
                     \cup (IF board_nvs_paired_mac # "none" THEN {board_nvs_paired_mac} ELSE {})

\* the board is not part of the behaviour
BoardOff ==
    /\ OthersOff
    /\ InitBoardStatics
    /\ board_nvs_paired_mac = "none" /\ InitBoardBoot
    /\ token = [ch \in Channels |-> NoBlock]

\* booted with or without a stored peer, or waiting in pairing mode after a
\* long press on an unpaired robot
InitTransport ==
    /\ role = "robo" /\ other = Alone /\ BoardOff
    /\ InitRx /\ InitObservation /\ InitLoop /\ InitTask
    /\ \/ InitBoot /\ nvs_paired_mac \in {"none", "A"}
       \/ /\ nvs_paired_mac = "none" /\ has_paired_mac = FALSE /\ paired_mac = ZERO_MAC
          /\ peers = {} /\ pairing_requested = FALSE
          /\ pairing_active = TRUE /\ pairing_success = FALSE

DeliverTransport ==
    \E m \in TransportMsgs :
        /\ (m.type = MSG_BLOCK_DATA) => g_nblk < MaxRxCount
        /\ Deliver(m)

NextTransport == DeliverTransport

SpecTransport == InitTransport /\ [][NextTransport]_vars

----------------------------------------------------------------------------
(* One transfer flooded with BlockData by the paired board                  *)

FloodMsgs ==
    {ProgramStartMsg("A", 2, SIZEOF_PROGRAM_START),
     BlockDataMsg("A", 0, BLOCK_FORWARD, SIZEOF_BLOCK_MSG),
     BlockDataMsg("A", 1, BLOCK_BEEP, SIZEOF_BLOCK_MSG),
     ProgramEndMsg("A", SIZEOF_PROGRAM_END)}

InitFlood ==
    /\ role = "robo" /\ other = Alone /\ BoardOff
    /\ InitRx /\ InitObservation /\ InitLoop /\ InitTask
    /\ InitBoot /\ nvs_paired_mac = "A"

DeliverFlood ==
    \E m \in FloodMsgs :
        /\ (m.type = MSG_BLOCK_DATA) => g_nblk < MaxFlood
        /\ Deliver(m)

NextFlood == DeliverFlood

SpecFlood == InitFlood /\ [][NextFlood]_vars

----------------------------------------------------------------------------
(* BOOT button of the robot: button_isr on both edges                      *)

\* held >= LONG_PRESS_US
IsLongPress(held) == held >= LONG_PRESS_US

button_isr_press ==
    /\ ~button_down
    /\ g_presses < MaxPresses
    /\ button_down' = TRUE
    /\ held_isr' = 0                   \* button_press_time = esp_timer_get_time()
    /\ g_presses' = g_presses + 1
    /\ g_entries' = 0
    /\ msg' = NoMsg /\ out' = <<>>
    /\ UNCHANGED <<statevars, rxvars, loopvars, held_poll, elapsed_ms, ghostrx,
                   g_accepted, g_acked, g_old>>
    /\ UNCHANGED notrobo

button_isr_release ==
    /\ button_down
    /\ button_down' = FALSE
    /\ pairing_requested' = (pairing_requested \/ IsLongPress(held_isr))
    /\ msg' = NoMsg /\ out' = <<>>
    /\ UNCHANGED <<paired_mac, has_paired_mac, pairing_active, pairing_success,
                   nvs_paired_mac, peers, rxvars, loopvars,
                   held_isr, held_poll, elapsed_ms, ghostrx, ghostpair>>
    /\ UNCHANGED notrobo

\* esp_timer_get_time() advances by one step; ages saturate at the threshold
\* they are compared with
Tick ==
    /\ held_isr' = IF button_down
                   THEN Saturate(held_isr + TimeStepMs * 1000, LONG_PRESS_US)
                   ELSE held_isr
    /\ held_poll' = IF button_was_pressed
                    THEN Saturate(held_poll + TimeStepMs * 1000, LONG_PRESS_US)
                    ELSE held_poll
    /\ elapsed_ms' = IF pairing_active
                     THEN Saturate(elapsed_ms + TimeStepMs, PAIR_TIMEOUT_MS)
                     ELSE elapsed_ms
    /\ <<held_isr', held_poll', elapsed_ms'>> # <<held_isr, held_poll, elapsed_ms>>
    /\ msg' = NoMsg /\ out' = <<>>
    /\ UNCHANGED <<statevars, rxvars, loopvars, button_down, ghostrx, ghostpair>>
    /\ UNCHANGED notrobo

----------------------------------------------------------------------------
(* Main loop of the robot (app_main), one pass in four steps               *)

\* "Poll button for long press (ISR may miss release edge)": the value of
\* pairing_requested after the polling block
PolledRequest ==
    \/ pairing_requested
    \/ (/\ button_down /\ button_was_pressed
        /\ ~pairing_active /\ ~pairing_requested
        /\ IsLongPress(held_poll))

\* the value of button_was_pressed after the polling block
PolledWasPressed ==
    IF ~button_down THEN FALSE
    ELSE IF ~button_was_pressed THEN TRUE
    ELSE ~(~pairing_active /\ ~pairing_requested /\ IsLongPress(held_poll))

\* button poll, then "Enter pairing mode" up to the test of has_paired_mac
MainPoll ==
    /\ main_pc = "poll"
    /\ button_was_pressed' = PolledWasPressed
    /\ held_poll' = IF button_down /\ ~button_was_pressed THEN 0 ELSE held_poll
    /\ IF PolledRequest /\ ~pairing_active
       THEN /\ pairing_requested' = FALSE
            /\ pairing_active' = TRUE
            /\ pairing_success' = FALSE
            /\ elapsed_ms' = 0         \* pair_start_time = esp_timer_get_time()
            /\ main_pc' = "unpair_send"
            /\ g_entries' = Saturate(g_entries + 1, MaxPresses + 1)
            /\ g_accepted' = FALSE
            /\ g_acked' = {}
            /\ g_old' = IF has_paired_mac THEN paired_mac ELSE "none"
       ELSE /\ pairing_requested' = PolledRequest
            /\ main_pc' = "check"
            /\ UNCHANGED <<pairing_active, pairing_success, elapsed_ms,
                           g_entries, g_accepted, g_acked, g_old>>
    /\ msg' = NoMsg /\ out' = <<>>
    /\ UNCHANGED <<paired_mac, has_paired_mac, nvs_paired_mac, peers, rxvars,
                   button_down, held_isr, ghostrx, g_presses>>
    /\ UNCHANGED notrobo

\* "Clear old pairing - notify board": esp_now_send, then vTaskDelay(50)
MainUnpairSend ==
    /\ main_pc = "unpair_send"
    /\ IF has_paired_mac
       THEN out' = <<Unpair(paired_mac)>> /\ main_pc' = "unpair_clear"
       ELSE out' = <<>> /\ main_pc' = "check"
    /\ msg' = NoMsg
    /\ UNCHANGED <<statevars, rxvars, button_was_pressed, envvars, ghostrx, ghostpair>>
    /\ UNCHANGED notrobo

\* after the delay: memset(paired_mac), has_paired_mac = false, nvs_erase_key
MainUnpairClear ==
    /\ main_pc = "unpair_clear"
    /\ paired_mac' = ZERO_MAC
    /\ has_paired_mac' = FALSE
    /\ nvs_paired_mac' = "none"
    /\ main_pc' = "check"
    /\ msg' = NoMsg /\ out' = <<>>
    /\ UNCHANGED <<pairing_requested, pairing_active, pairing_success, peers, rxvars,
                   button_was_pressed, envvars, ghostrx, ghostpair>>
    /\ UNCHANGED notrobo

\* elapsed_ms >= PAIR_TIMEOUT_MS
TimedOut(elapsed) == elapsed >= PAIR_TIMEOUT_MS

\* "Pairing active: animate eyes and check state", then vTaskDelay(100)
MainCheck ==
    /\ main_pc = "check"
    /\ IF pairing_active /\ pairing_success
       THEN /\ pairing_active' = FALSE
            /\ nvs_paired_mac' = paired_mac        \* save_paired_mac()
       ELSE IF pairing_active /\ TimedOut(elapsed_ms)
       THEN /\ pairing_active' = FALSE
            /\ UNCHANGED nvs_paired_mac
       ELSE UNCHANGED <<pairing_active, nvs_paired_mac>>
    /\ main_pc' = "poll"
    /\ msg' = NoMsg /\ out' = <<>>
    /\ UNCHANGED <<paired_mac, has_paired_mac, pairing_requested, pairing_success,
                   peers, rxvars, button_was_pressed, envvars, ghostrx, ghostpair>>
    /\ UNCHANGED notrobo

----------------------------------------------------------------------------
(* The robot's pairing state machine in an arbitrary radio environment     *)

\* the pairing messages of two boards, and the start of a program transfer
RoboMsgs ==
    PairingMsgs \cup {ProgramStartMsg("A", 1, SIZEOF_PROGRAM_START)}

InitRobo ==
    /\ role = "robo" /\ other = Alone /\ BoardOff
    /\ InitRx /\ InitObservation /\ InitLoop /\ InitTask
    /\ InitBoot /\ nvs_paired_mac \in {"none", "A"}

DeliverRobo ==
    \E m \in RoboMsgs :
        /\ (m.type = MSG_BLOCK_DATA) => g_nblk < MaxRxCount
        /\ Deliver(m)

NextRobo ==
    \/ DeliverRobo
    \/ button_isr_press
    \/ button_isr_release
    \/ Tick
    \/ MainPoll
    \/ MainUnpairSend
    \/ MainUnpairClear
    \/ MainCheck

SpecRobo == InitRobo /\ [][NextRobo]_vars

----------------------------------------------------------------------------
(* executor_run (robo/main/executor.c)                                     *)

\* actuator calls and delays
Motor(fn)        == [op |-> "motor", arg |-> fn, ms |-> 0]
Expression(expr) == [op |-> "expression", arg |-> expr, ms |-> 0]
Look(dir)        == [op |-> "look", arg |-> dir, ms |-> 0]
Delay(ms)        == [op |-> "delay", arg |-> "", ms |-> ms]

MovementBlocks == {BLOCK_FORWARD, BLOCK_BACKWARD, BLOCK_TURN_RIGHT, BLOCK_TURN_LEFT}

\* mutant: the motors are left as they are
Cleanup_NoStop == <<Expression("NORMAL"), Look("CENTER")>>

\* motor_stop(); eyes_set_expression(EYES_NORMAL); eyes_set_look_direction(EYES_CENTER)
Cleanup == <<Motor("stop"), Expression("NORMAL"), Look("CENTER")>>

\* one executor_run invocation: blocks = &exec_blocks[base], count, pc, and the
\* locals of the BLOCK_REPEAT case while a body is being executed
Frame(base, count) ==
    [base |-> base, count |-> count, pc |-> 0,
     end_pc |-> 0, iterations |-> 0, r |-> 0]

\* blocks[i].type of an invocation
BlockAt(f, i) == exec_blocks[f.base + i]

\* mutant: PARAM_3 is read as two repetitions
get_param_value_Param3AsTwo(f, pc) ==
    IF pc + 1 >= f.count THEN 1
    ELSE IF BlockAt(f, pc + 1) = BLOCK_PARAM_2 THEN 2
    ELSE IF BlockAt(f, pc + 1) = BLOCK_PARAM_3 THEN 2
    ELSE IF BlockAt(f, pc + 1) = BLOCK_PARAM_4 THEN 4
    ELSE IF BlockAt(f, pc + 1) = BLOCK_PARAM_FOREVER THEN -1
    ELSE 1

\* the value returned by get_param_value
get_param_value(f, pc) ==
    IF pc + 1 >= f.count THEN 1
    ELSE IF BlockAt(f, pc + 1) = BLOCK_PARAM_2 THEN 2
    ELSE IF BlockAt(f, pc + 1) = BLOCK_PARAM_3 THEN 3
    ELSE IF BlockAt(f, pc + 1) = BLOCK_PARAM_4 THEN 4
    ELSE IF BlockAt(f, pc + 1) = BLOCK_PARAM_FOREVER THEN -1
    ELSE 1

\* *pc after get_param_value: "consume the param block"
PcAfterParam(f, pc) ==
    IF /\ pc + 1 < f.count
       /\ BlockAt(f, pc + 1) \in {BLOCK_PARAM_2, BLOCK_PARAM_3, BLOCK_PARAM_4,
                                  BLOCK_PARAM_FOREVER}
    THEN pc + 1 ELSE pc

RECURSIVE MoveReps(_, _, _)
MoveReps(fn, i, repeat) ==
    IF i >= repeat THEN <<>>
    ELSE <<Motor(fn), Delay(DEFAULT_MOVE_MS), Motor("stop")>>
         \o (IF i < repeat - 1 THEN <<Delay(MOVE_PAUSE_MS)>> ELSE <<>>)
         \o MoveReps(fn, i + 1, repeat)

do_move(fn, repeat) ==
    IF repeat < 0
    THEN <<Motor(fn), Delay(FOREVER_MOVE_MS), Motor("stop")>>
    ELSE MoveReps(fn, 0, repeat)

RECURSIVE ShakeCycles(_)
ShakeCycles(i) ==
    IF i >= SHAKE_CYCLES THEN <<>>
    ELSE <<Motor("turn_left"), Delay(SHAKE_CYCLE_MS),
           Motor("turn_right"), Delay(SHAKE_CYCLE_MS)>> \o ShakeCycles(i + 1)

\* mutant: the scan stops at the first END_REPEAT
RECURSIVE ScanEndRepeat_FirstEnd(_, _, _)
ScanEndRepeat_FirstEnd(f, s, depth) ==
    IF s >= f.count THEN f.count
    ELSE IF BlockAt(f, s) = BLOCK_END_REPEAT THEN s
    ELSE ScanEndRepeat_FirstEnd(f, s + 1, depth)

\* "Find the matching END_REPEAT": the value of end_pc after the scan from s
RECURSIVE ScanEndRepeat(_, _, _)
ScanEndRepeat(f, s, depth) ==
    IF s >= f.count THEN f.count
    ELSE IF BlockAt(f, s) = BLOCK_REPEAT THEN ScanEndRepeat(f, s + 1, depth + 1)
    ELSE IF BlockAt(f, s) = BLOCK_END_REPEAT
         THEN (IF depth - 1 = 0 THEN s ELSE ScanEndRepeat(f, s + 1, depth - 1))
    ELSE ScanEndRepeat(f, s + 1, depth)

ExpressionNames ==
    <<"NORMAL", "HAPPY", "SAD", "ANGRY", "SURPRISED", "SLEEPING", "EXCITED", "FOCUSED">>
LookNames == <<"CENTER", "LEFT", "RIGHT", "UP", "DOWN">>

\* the calls made by the case of a block that is neither END nor REPEAT
BlockCmds(f, t) ==
    IF t = BLOCK_BEGIN THEN <<Expression("FOCUSED")>>
    ELSE IF t = BLOCK_FORWARD
    THEN <<Expression("FOCUSED"), Look("UP")>> \o do_move("forward", get_param_value(f, f.pc))
    ELSE IF t = BLOCK_BACKWARD
    THEN <<Expression("FOCUSED"), Look("DOWN")>> \o do_move("backward", get_param_value(f, f.pc))
    ELSE IF t = BLOCK_TURN_RIGHT
    THEN <<Look("RIGHT")>> \o do_move("turn_right", get_param_value(f, f.pc))
    ELSE IF t = BLOCK_TURN_LEFT
    THEN <<Look("LEFT")>> \o do_move("turn_left", get_param_value(f, f.pc))
    ELSE IF t = BLOCK_SHAKE
    THEN <<Expression("EXCITED")>> \o ShakeCycles(0) \o <<Motor("stop")>>
    ELSE IF t = BLOCK_SPIN
    THEN <<Expression("SURPRISED"), Motor("spin"), Delay(SPIN_MS), Motor("stop")>>
    ELSE IF t = BLOCK_BEEP THEN <<Expression("HAPPY"), Delay(BEEP_MS)>>
    ELSE IF t \in BLOCK_SING .. BLOCK_PLAY_SQUARE THEN <<Expression("HAPPY"), Delay(SOUND_MS)>>
    ELSE IF t = BLOCK_WAIT_FOR_CLAP THEN <<Expression("SURPRISED"), Delay(CLAP_WAIT_MS)>>
    ELSE IF t \in BLOCK_EYES_NORMAL .. BLOCK_EYES_FOCUSED
    THEN <<Expression(ExpressionNames[t - BLOCK_EYES_NORMAL + 1]), Delay(DEFAULT_MOVE_MS)>>
    ELSE IF t \in BLOCK_EYES_LOOK_CENTER .. BLOCK_EYES_LOOK_DOWN
    THEN <<Look(LookNames[t - BLOCK_EYES_LOOK_CENTER + 1]), Delay(DEFAULT_MOVE_MS)>>
    ELSE <<>>       \* END_REPEAT, IF, END_IF, lights, parameters, sensors, unknown

\* the state of the motor driver after a sequence of calls
RECURSIVE MotorAfter(_, _)
MotorAfter(m, cs) ==
    IF cs = <<>> THEN m
    ELSE MotorAfter(IF Head(cs).op = "motor" THEN Head(cs).arg ELSE m, Tail(cs))

\* the innermost invocation, and the invocations that wait for it
Top  == stack[Len(stack)]
Rest == SubSeq(stack, 1, Len(stack) - 1)

\* mutant: the for loop of the BLOCK_REPEAT case never counts
Resume_NeverCounts(callers) ==
    IF callers = <<>> THEN <<>>
    ELSE LET p == callers[Len(callers)] IN
         callers \o <<Frame(p.base + p.pc + 1, p.end_pc - (p.pc + 1))>>

\* "Execute the body reps times": the caller of a returned invocation goes on
\* with the next iteration of its for loop, or leaves the BLOCK_REPEAT case
\* (pc = end_pc; break; pc++).  callers is the stack with the caller on top.
Resume(callers) ==
    IF callers = <<>> THEN <<>>
    ELSE LET p == callers[Len(callers)] IN
         IF p.r + 1 < p.iterations
         THEN [callers EXCEPT ![Len(callers)].r = p.r + 1]
              \o <<Frame(p.base + p.pc + 1, p.end_pc - (p.pc + 1))>>
         ELSE [callers EXCEPT ![Len(callers)] = [Frame(p.base, p.count) EXCEPT !.pc = p.end_pc + 1]]

\* mutant: the body handed to the recursive call includes the block at end_pc
EnterRepeat_BodyPastEnd(f) ==
    LET reps       == get_param_value(f, f.pc)
        start_pc   == PcAfterParam(f, f.pc) + 1
        end_pc     == ScanEndRepeat(f, start_pc, 1)
        iterations == IF reps < 0 THEN FOREVER_ITERATIONS ELSE reps
        body_len   == end_pc - start_pc + 1
    IN  IF iterations > 0 /\ body_len > 0
        THEN <<[f EXCEPT !.pc = start_pc - 1, !.end_pc = end_pc,
                         !.iterations = iterations, !.r = 0],
               Frame(f.base + start_pc, body_len)>>
        ELSE <<[f EXCEPT !.pc = end_pc + 1]>>

\* mutant: the forever sentinel runs the body once
EnterRepeat_ForeverOnce(f) ==
    LET reps       == get_param_value(f, f.pc)
        start_pc   == PcAfterParam(f, f.pc) + 1
        end_pc     == ScanEndRepeat(f, start_pc, 1)
        iterations == IF reps < 0 THEN 1 ELSE reps
        body_len   == end_pc - start_pc
    IN  IF iterations > 0 /\ body_len > 0
        THEN <<[f EXCEPT !.pc = start_pc - 1, !.end_pc = end_pc,
                         !.iterations = iterations, !.r = 0],
               Frame(f.base + start_pc, body_len)>>
        ELSE <<[f EXCEPT !.pc = end_pc + 1]>>

\* case BLOCK_REPEAT up to the first recursive call, or through the whole case
\* when the body is empty
EnterRepeat(f) ==
    LET reps       == get_param_value(f, f.pc)
        start_pc   == PcAfterParam(f, f.pc) + 1
        end_pc     == ScanEndRepeat(f, start_pc, 1)
        iterations == IF reps < 0 THEN FOREVER_ITERATIONS ELSE reps
        body_len   == end_pc - start_pc
    IN  IF iterations > 0 /\ body_len > 0
        THEN <<[f EXCEPT !.pc = start_pc - 1, !.end_pc = end_pc,
                         !.iterations = iterations, !.r = 0],
               Frame(f.base + start_pc, body_len)>>
        ELSE <<[f EXCEPT !.pc = end_pc + 1]>>

\* what neither the executor task nor executor_run touches
nottask == <<statevars, rx_blocks, rx_count, rx_expected, rx_in_progress,
             exec_blocks, exec_count, loopvars, envvars, msg, out,
             ghostrx, ghostpair, role, other, boardvars, g_acc_prog, othervars>>

\* mutant: the task does not wait for the semaphore
TaskTake_NoWait ==
    /\ task_pc = "wait"
    /\ program_ready_sem' = 0
    /\ task_pc' = "call"
    /\ g_credit' = g_credit - 1
    /\ cmds' = <<>> /\ disp' = NoDispatch
    /\ UNCHANGED <<stack, motor, g_ended, g_run_prog>>
    /\ UNCHANGED nottask

\* xSemaphoreTake(program_ready_sem, portMAX_DELAY) returns pdTRUE
TaskTake ==
    /\ task_pc = "wait"
    /\ program_ready_sem = 1
    /\ program_ready_sem' = 0
    /\ task_pc' = "call"
    /\ g_credit' = g_credit - 1
    /\ cmds' = <<>> /\ disp' = NoDispatch
    /\ UNCHANGED <<stack, motor, g_ended, g_run_prog>>
    /\ UNCHANGED nottask

\* executor_run(exec_blocks, exec_count): the array is passed by address, the
\* count by value
TaskCall ==
    /\ task_pc = "call"
    /\ task_pc' = "run"
    /\ stack' = <<Frame(0, exec_count)>>
    /\ g_run_prog' = [i \in 1 .. exec_count |-> exec_blocks[i - 1]]
    /\ g_ended' = FALSE
    /\ cmds' = <<>> /\ disp' = NoDispatch
    /\ UNCHANGED <<program_ready_sem, motor, g_credit>>
    /\ UNCHANGED nottask

\* one pass of "while (pc < count)": the switch on blocks[pc].type and pc++
ExecDispatch ==
    /\ task_pc = "run"
    /\ Top.pc < Top.count
    /\ LET f == Top
           t == BlockAt(f, f.pc)
       IN  /\ disp' = f.base + f.pc
           /\ IF t = BLOCK_END
              THEN /\ cmds' = Cleanup
                   /\ stack' = Resume(Rest)
                   /\ g_ended' = TRUE
              ELSE IF t = BLOCK_REPEAT
              THEN /\ cmds' = <<>>
                   /\ stack' = Rest \o EnterRepeat(f)
                   /\ UNCHANGED g_ended
              ELSE /\ cmds' = BlockCmds(f, t)
                   /\ stack' = [stack EXCEPT ![Len(stack)].pc =
                                   (IF t \in MovementBlocks
                                    THEN PcAfterParam(f, f.pc) ELSE f.pc) + 1]
                   /\ UNCHANGED g_ended
    /\ motor' = MotorAfter(motor, cmds')
    /\ task_pc' = IF stack' = <<>> THEN "wait" ELSE "run"
    /\ UNCHANGED <<program_ready_sem, g_run_prog, g_credit>>
    /\ UNCHANGED nottask

\* the loop ends with pc >= count: the calls after the loop, and the return
ExecReturn ==
    /\ task_pc = "run"
    /\ Top.pc >= Top.count
    /\ cmds' = Cleanup
    /\ disp' = NoDispatch
    /\ stack' = Resume(Rest)
    /\ motor' = MotorAfter(motor, cmds')
    /\ task_pc' = IF stack' = <<>> THEN "wait" ELSE "run"
    /\ UNCHANGED <<program_ready_sem, g_ended, g_run_prog, g_credit>>
    /\ UNCHANGED nottask

NextTask == TaskTake \/ TaskCall \/ ExecDispatch \/ ExecReturn

----------------------------------------------------------------------------
(* The executor on its own: one accepted program is run to completion       *)

RECURSIVE ProgramsOfLen(_, _)
ProgramsOfLen(types, n) ==
    IF n = 0 THEN {<<>>}
    ELSE {Append(p, t) : p \in ProgramsOfLen(types, n - 1), t \in types}

Programs(types, maxlen) == UNION {ProgramsOfLen(types, n) : n \in 0 .. maxlen}

\* a block array holding the program p
Load(p) == [i \in Slots |-> IF i < Len(p) THEN p[i + 1] ELSE ZeroBlock]

\* the robot paired with board "A" right after the callback accepted the
\* program p from it, the first transfer since boot
AfterTransfer(p) ==
    /\ role = "robo" /\ other = Alone /\ BoardOff
    /\ InitLoop
    /\ nvs_paired_mac = "A" /\ has_paired_mac = TRUE /\ paired_mac = "A"
    /\ pairing_requested = FALSE /\ pairing_active = FALSE /\ pairing_success = FALSE
    /\ peers = {"A"}
    /\ rx_blocks = Load(p) /\ rx_count = Len(p) /\ rx_expected = Len(p)
    /\ rx_in_progress = FALSE
    /\ exec_blocks = Load(p) /\ exec_count = Len(p)
    /\ program_ready_sem = 1
    /\ msg = ProgramEndMsg("A", SIZEOF_PROGRAM_END)
    /\ out = <<ProgramAck("A", Len(p))>>
    /\ g_src = "A" /\ g_n = Len(p) /\ g_nblk = Len(p) /\ g_clean = TRUE
    /\ g_sent = [i \in Slots |-> IF i < Len(p) THEN p[i + 1] ELSE NoBlock]
    /\ g_presses = 0 /\ g_entries = 0 /\ g_accepted = FALSE /\ g_acked = {} /\ g_old = "none"
    /\ task_pc = "wait" /\ stack = <<>> /\ motor = "stop"
    /\ cmds = <<>> /\ disp = NoDispatch /\ g_ended = FALSE /\ g_run_prog = <<>>
    /\ g_credit = 1 /\ g_acc_prog = p

\* the block types the programs are made of
ExecTypes ==
    {BLOCK_END, BLOCK_FORWARD, BLOCK_TURN_LEFT, BLOCK_BEEP, BLOCK_REPEAT, BLOCK_END_REPEAT,
     BLOCK_PARAM_3, BLOCK_PARAM_FOREVER}

InitExecutor == \E p \in Programs(ExecTypes, MaxProgLen) : AfterTransfer(p)

NextExecutor == NextTask

SpecExecutor == InitExecutor /\ [][NextExecutor]_vars

\* the task is scheduled whenever it can run
SpecExecutorFair == SpecExecutor /\ WF_vars(NextTask)

\* programs of the four movements, the four parameters and a repeat
MoveTypes ==
    MovementBlocks \cup {BLOCK_PARAM_2, BLOCK_PARAM_3, BLOCK_PARAM_4, BLOCK_PARAM_FOREVER,
                         BLOCK_BEEP, BLOCK_REPEAT, BLOCK_END_REPEAT}

InitMoves == \E p \in Programs(MoveTypes, MaxMoveLen) : AfterTransfer(p)

SpecMoves == InitMoves /\ [][NextExecutor]_vars

\* programs of repeats, one movement and one parameter, and the sequence
\* Repeat, Forward, Repeat, Beep, EndRepeat, EndRepeat
NestTypes == {BLOCK_REPEAT, BLOCK_END_REPEAT, BLOCK_FORWARD, BLOCK_PARAM_2}

NestExample ==
    <<BLOCK_REPEAT, BLOCK_FORWARD, BLOCK_REPEAT, BLOCK_BEEP, BLOCK_END_REPEAT,
      BLOCK_END_REPEAT>>

InitNesting ==
    \E p \in Programs(NestTypes, MaxNestLen) \cup {NestExample} : AfterTransfer(p)

SpecNesting == InitNesting /\ [][NextExecutor]_vars

\* programs of repeats with every parameter block around one plain block, and
\* the sequence Repeat, Param2, Repeat, Param4, Beep, EndRepeat, EndRepeat, Beep
RepeatTypes ==
    {BLOCK_REPEAT, BLOCK_END_REPEAT, BLOCK_BEEP,
     BLOCK_PARAM_2, BLOCK_PARAM_3, BLOCK_PARAM_4, BLOCK_PARAM_FOREVER}

RepeatExample ==
    <<BLOCK_REPEAT, BLOCK_PARAM_2, BLOCK_REPEAT, BLOCK_PARAM_4, BLOCK_BEEP,
      BLOCK_END_REPEAT, BLOCK_END_REPEAT, BLOCK_BEEP>>

InitRepeats ==
    \E p \in Programs(RepeatTypes, MaxRepeatLen) \cup {RepeatExample} : AfterTransfer(p)

SpecRepeats == InitRepeats /\ [][NextExecutor]_vars

----------------------------------------------------------------------------
(* Handoff: the receive callback and the executor task side by side         *)

\* transfers of one or two blocks from the paired board
HandoffMsgs ==
    {ProgramStartMsg("A", c, SIZEOF_PROGRAM_START) : c \in {1, 2}}
    \cup {BlockDataMsg("A", 0, BLOCK_FORWARD, SIZEOF_BLOCK_MSG),
          BlockDataMsg("A", 1, BLOCK_FORWARD, SIZEOF_BLOCK_MSG),
          BlockDataMsg("A", 1, BLOCK_BEEP, SIZEOF_BLOCK_MSG)}
    \cup {ProgramEndMsg("A", SIZEOF_PROGRAM_END)}

InitHandoff ==
    /\ role = "robo" /\ other = Alone /\ BoardOff
    /\ InitRx /\ InitObservation /\ InitLoop /\ InitTask
    /\ InitBoot /\ nvs_paired_mac = "A"

DeliverHandoff ==
    \E m \in HandoffMsgs :
        /\ (m.type = MSG_BLOCK_DATA) => g_nblk < MaxHandoffBlocks
        /\ Deliver(m)

NextHandoff == DeliverHandoff \/ TaskTake \/ TaskCall \/ ExecDispatch \/ ExecReturn

SpecHandoff == InitHandoff /\ [][NextHandoff]_vars

\* the executor task is scheduled whenever it can run
SpecHandoffFair == SpecHandoff /\ WF_vars(NextTask)

----------------------------------------------------------------------------
(* espnow_recv_cb of the board                                             *)

\* a return that leaves every static of the board untouched
BoardIgnore == UNCHANGED <<boardstate, boardeeprom>>

OnPairAck(m) ==
    IF m.len < SIZEOF_PAIR_ACK
    THEN BoardIgnore
    ELSE /\ target_mac' = m.mac
         /\ board_has_paired_mac' = TRUE
         /\ board_pairing_success' = TRUE
         /\ UNCHANGED <<board_pairing_requested, board_pairing_active, send_requested,
                        board_nvs_paired_mac, board_peers, boardeeprom>>

\* mutant: the source address of the Unpair is not compared
BoardOnUnpair_NoSrcCheck(m) ==
    /\ board_peers' = board_peers \ {target_mac}
    /\ target_mac' = ESPNOW_BROADCAST_MAC
    /\ board_has_paired_mac' = FALSE
    /\ board_nvs_paired_mac' = "none"
    /\ UNCHANGED <<board_pairing_requested, board_pairing_active,
                   board_pairing_success, send_requested, boardeeprom>>

BoardOnUnpair(m) ==
    IF m.src = target_mac
    THEN /\ board_peers' = board_peers \ {target_mac}
         /\ target_mac' = ESPNOW_BROADCAST_MAC
         /\ board_has_paired_mac' = FALSE
         /\ board_nvs_paired_mac' = "none"
         /\ UNCHANGED <<board_pairing_requested, board_pairing_active,
                        board_pairing_success, send_requested, boardeeprom>>
    ELSE BoardIgnore

\* a ProgramAck is only logged
board_espnow_recv_cb(m) ==
    IF m.len < 1 THEN BoardIgnore
    ELSE IF m.type = MSG_PAIR_ACK /\ board_pairing_active THEN OnPairAck(m)
    ELSE IF m.type = MSG_UNPAIR /\ board_has_paired_mac THEN BoardOnUnpair(m)
    ELSE BoardIgnore

\* what the board's callback, interrupt and main loop never touch
notboard == <<role, other, robovars, ghostpair, taskvars, ghosthand, othervars>>

BoardDeliver(m) ==
    /\ board_espnow_recv_cb(m)
    /\ msg' = m
    /\ out' = <<>>
    /\ UNCHANGED <<boardloop, boardenv>>
    /\ UNCHANGED notboard

----------------------------------------------------------------------------
(* BOOT button of the board: button_isr on both edges                      *)

board_button_isr_press(max) ==
    /\ ~board_button_down
    /\ g_presses < max
    /\ board_button_down' = TRUE
    /\ board_held_isr' = 0             \* button_press_time = esp_timer_get_time()
    /\ g_presses' = g_presses + 1
    /\ msg' = NoMsg /\ out' = <<>>
    /\ UNCHANGED <<boardstate, boardeeprom, boardloop, board_held_poll,
                   board_elapsed_ms, bcast_age_ms, poll_age_ms>>
    /\ UNCHANGED <<role, other, robovars, g_entries, g_accepted, g_acked, g_old,
                   taskvars, ghosthand, othervars>>

board_button_isr_release ==
    /\ board_button_down
    /\ board_button_down' = FALSE
    /\ IF IsLongPress(board_held_isr)
       THEN board_pairing_requested' = TRUE /\ UNCHANGED send_requested
       ELSE send_requested' = TRUE /\ UNCHANGED board_pairing_requested
    /\ msg' = NoMsg /\ out' = <<>>
    /\ UNCHANGED <<target_mac, board_has_paired_mac, board_pairing_active,
                   board_pairing_success, board_nvs_paired_mac, board_peers,
                   boardeeprom, boardloop, board_held_isr, board_held_poll,
                   board_elapsed_ms, bcast_age_ms, poll_age_ms>>
    /\ UNCHANGED notboard

\* esp_timer_get_time() of the board advances by step milliseconds; poll_counter
\* counts main-loop passes of 100 ms outside pairing mode and is kept as the
\* time since the last EEPROM poll
BoardTick(step) ==
    /\ board_held_isr' = IF board_button_down
                         THEN Saturate(board_held_isr + step * 1000, LONG_PRESS_US)
                         ELSE board_held_isr
    /\ board_held_poll' = IF board_button_was_pressed
                          THEN Saturate(board_held_poll + step * 1000, LONG_PRESS_US)
                          ELSE board_held_poll
    /\ board_elapsed_ms' = IF board_pairing_active
                           THEN Saturate(board_elapsed_ms + step, PAIR_TIMEOUT_MS)
                           ELSE board_elapsed_ms
    /\ bcast_age_ms' = IF board_pairing_active
                       THEN Saturate(bcast_age_ms + step, PAIR_BCAST_MS)
                       ELSE bcast_age_ms
    /\ poll_age_ms' = IF ~board_pairing_active
                      THEN Saturate(poll_age_ms + step, POLL_INTERVAL_MS)
                      ELSE poll_age_ms
    /\ <<board_held_isr', board_held_poll', board_elapsed_ms', bcast_age_ms', poll_age_ms'>>
           # <<board_held_isr, board_held_poll, board_elapsed_ms, bcast_age_ms, poll_age_ms>>
    /\ msg' = NoMsg /\ out' = <<>>
    /\ UNCHANGED <<boardstate, boardeeprom, board_pc, board_button_was_pressed,
                   send_blocks, send_i, board_button_down>>
    /\ UNCHANGED notboard

----------------------------------------------------------------------------
(* Main loop of the board (app_main)                                       *)

BoardPolledRequest ==
    \/ board_pairing_requested
    \/ (/\ board_button_down /\ board_button_was_pressed
        /\ ~board_pairing_active /\ ~board_pairing_requested
        /\ IsLongPress(board_held_poll))

BoardPolledWasPressed ==
    IF ~board_button_down THEN FALSE
    ELSE IF ~board_button_was_pressed THEN TRUE
    ELSE ~(~board_pairing_active /\ ~board_pairing_requested /\ IsLongPress(board_held_poll))

\* button poll, then entry into pairing mode up to the test of has_paired_mac
BoardMainPoll ==
    /\ board_pc = "poll"
    /\ board_button_was_pressed' = BoardPolledWasPressed
    /\ board_held_poll' = IF board_button_down /\ ~board_button_was_pressed
                          THEN 0 ELSE board_held_poll
    /\ IF BoardPolledRequest /\ ~board_pairing_active
       THEN /\ board_pairing_requested' = FALSE
            /\ board_pairing_active' = TRUE
            /\ board_pairing_success' = FALSE
            /\ board_elapsed_ms' = 0           \* pair_start_time = esp_timer_get_time()
            /\ bcast_age_ms' = PAIR_BCAST_MS   \* last_pair_bcast = 0
            /\ board_pc' = "unpair_send"
       ELSE /\ board_pairing_requested' = BoardPolledRequest
            /\ board_pc' = "check"
            /\ UNCHANGED <<board_pairing_active, board_pairing_success,
                           board_elapsed_ms, bcast_age_ms>>
    /\ msg' = NoMsg /\ out' = <<>>
    /\ UNCHANGED <<target_mac, board_has_paired_mac, send_requested,
                   board_nvs_paired_mac, board_peers, boardeeprom,
                   poll_age_ms, send_blocks, send_i, board_button_down, board_held_isr>>
    /\ UNCHANGED notboard

\* "Clear old pairing - notify robot": esp_now_send, then vTaskDelay(50)
BoardUnpairSend ==
    /\ board_pc = "unpair_send"
    /\ IF board_has_paired_mac
       THEN out' = <<Unpair(target_mac)>> /\ board_pc' = "unpair_clear"
       ELSE out' = <<>> /\ board_pc' = "check"
    /\ msg' = NoMsg
    /\ UNCHANGED <<boardstate, boardeeprom, board_button_was_pressed,
                   send_blocks, send_i, boardenv>>
    /\ UNCHANGED notboard

\* after the delay: esp_now_del_peer, target back to broadcast, nvs_erase_key
BoardUnpairClear ==
    /\ board_pc = "unpair_clear"
    /\ board_peers' = board_peers \ {target_mac}
    /\ target_mac' = ESPNOW_BROADCAST_MAC
    /\ board_has_paired_mac' = FALSE
    /\ board_nvs_paired_mac' = "none"
    /\ board_pc' = "check"
    /\ msg' = NoMsg /\ out' = <<>>
    /\ UNCHANGED <<board_pairing_requested, board_pairing_active, board_pairing_success,
                   send_requested, boardeeprom, board_button_was_pressed,
                   send_blocks, send_i, boardenv>>
    /\ UNCHANGED notboard

\* mutant: the records are collected from the last channel down
RECURSIVE CollectBlocks_Reversed(_)
CollectBlocks_Reversed(ch) ==
    IF ch >= NUM_EEPROMS THEN <<>>
    ELSE CollectBlocks_Reversed(ch + 1)
         \o (IF eeprom_present[ch] /\ data_valid[ch] THEN <<eeprom_data[ch]>> ELSE <<>>)

\* send_eeprom_program_to_robot: the records of the channels that are present
\* and validly read, in channel order
RECURSIVE CollectBlocks(_)
CollectBlocks(ch) ==
    IF ch >= NUM_EEPROMS THEN <<>>
    ELSE (IF eeprom_present[ch] /\ data_valid[ch] THEN <<eeprom_data[ch]>> ELSE <<>>)
         \o CollectBlocks(ch + 1)

\* "if (pairing_active)": success, timeout or periodic broadcast, then continue
BoardPairingPass ==
    /\ IF board_pairing_success
       THEN /\ board_pairing_active' = FALSE
            /\ board_nvs_paired_mac' = target_mac      \* save_paired_mac()
            /\ board_peers' = ((board_peers \ {ESPNOW_BROADCAST_MAC})
                                   \cup {target_mac}) \cup {ESPNOW_BROADCAST_MAC}
            /\ out' = <<>>
            /\ UNCHANGED bcast_age_ms
       ELSE IF TimedOut(board_elapsed_ms)
       THEN /\ board_pairing_active' = FALSE
            /\ out' = <<>>
            /\ UNCHANGED <<board_nvs_paired_mac, board_peers, bcast_age_ms>>
       ELSE /\ IF bcast_age_ms >= PAIR_BCAST_MS
               THEN /\ bcast_age_ms' = 0              \* last_pair_bcast = now
                    /\ out' = <<PairRequest(ESPNOW_BROADCAST_MAC, BOARD_MAC)>>
               ELSE /\ out' = <<>>
                    /\ UNCHANGED bcast_age_ms
            /\ UNCHANGED <<board_pairing_active, board_nvs_paired_mac, board_peers>>
    /\ board_pc' = "poll"
    /\ UNCHANGED <<send_requested, send_blocks, send_i>>

\* mutant: send_program_to_robot does not test has_paired_mac
BoardSendStart_NoPairCheck ==
    /\ IF send_requested
       THEN /\ send_requested' = FALSE
            /\ IF CollectBlocks(0) = <<>>
               THEN /\ out' = <<>>
                    /\ board_pc' = "eeprom"
                    /\ UNCHANGED <<send_blocks, send_i>>
               ELSE /\ out' = <<ProgramStart(target_mac, Len(CollectBlocks(0)))>>
                    /\ send_blocks' = CollectBlocks(0)
                    /\ send_i' = 0
                    /\ board_pc' = "send_block"
       ELSE /\ out' = <<>>
            /\ board_pc' = "eeprom"
            /\ UNCHANGED <<send_requested, send_blocks, send_i>>
    /\ UNCHANGED <<board_pairing_active, board_nvs_paired_mac, board_peers, bcast_age_ms>>

\* "Normal operation": a pending send request starts send_program_to_robot
BoardSendStart ==
    /\ IF send_requested
       THEN /\ send_requested' = FALSE
            /\ IF CollectBlocks(0) = <<>> \/ ~board_has_paired_mac
               THEN /\ out' = <<>>
                    /\ board_pc' = "eeprom"
                    /\ UNCHANGED <<send_blocks, send_i>>
               ELSE /\ out' = <<ProgramStart(target_mac, Len(CollectBlocks(0)))>>
                    /\ send_blocks' = CollectBlocks(0)
                    /\ send_i' = 0
                    /\ board_pc' = "send_block"
       ELSE /\ out' = <<>>
            /\ board_pc' = "eeprom"
            /\ UNCHANGED <<send_requested, send_blocks, send_i>>
    /\ UNCHANGED <<board_pairing_active, board_nvs_paired_mac, board_peers, bcast_age_ms>>

BoardMainCheck ==
    /\ board_pc = "check"
    /\ IF board_pairing_active THEN BoardPairingPass ELSE BoardSendStart
    /\ msg' = NoMsg
    /\ UNCHANGED <<target_mac, board_has_paired_mac, board_pairing_requested,
                   board_pairing_success, boardeeprom, board_button_was_pressed,
                   poll_age_ms, board_button_down, board_held_isr, board_held_poll,
                   board_elapsed_ms>>
    /\ UNCHANGED notboard

\* mutant: the loop of send_program_to_robot stops one record early
BoardSendBlock_OneShort ==
    /\ board_pc = "send_block"
    /\ IF send_i + 1 < Len(send_blocks)
       THEN /\ out' = <<BlockData(target_mac, send_i, send_blocks[send_i + 1])>>
            /\ send_i' = send_i + 1
            /\ UNCHANGED <<board_pc, send_blocks>>
       ELSE /\ out' = <<ProgramEnd(target_mac)>>
            /\ board_pc' = "eeprom"
            /\ send_blocks' = <<>>
            /\ send_i' = 0
    /\ msg' = NoMsg
    /\ UNCHANGED <<boardstate, boardeeprom, board_button_was_pressed, boardenv>>
    /\ UNCHANGED notboard

\* send_program_to_robot after a vTaskDelay(20): the next BlockData, or the
\* ProgramEnd; dest points at target_mac
BoardSendBlock ==
    /\ board_pc = "send_block"
    /\ IF send_i < Len(send_blocks)
       THEN /\ out' = <<BlockData(target_mac, send_i, send_blocks[send_i + 1])>>
            /\ send_i' = send_i + 1
            /\ UNCHANGED <<board_pc, send_blocks>>
       ELSE /\ out' = <<ProgramEnd(target_mac)>>
            /\ board_pc' = "eeprom"
            /\ send_blocks' = <<>>
            /\ send_i' = 0
    /\ msg' = NoMsg
    /\ UNCHANGED <<boardstate, boardeeprom, board_button_was_pressed, boardenv>>
    /\ UNCHANGED notboard

\* one channel of the EEPROM poll; ok is the outcome of eeprom_read
PolledValid(ch, ok) ==
    IF token[ch] # NoBlock /\ ~eeprom_present[ch] THEN (ok \/ data_valid[ch])
    ELSE IF token[ch] = NoBlock /\ eeprom_present[ch] THEN FALSE
    ELSE data_valid[ch]

PolledData(ch, ok) ==
    IF token[ch] # NoBlock /\ ~eeprom_present[ch] /\ ok THEN token[ch]
    ELSE IF token[ch] = NoBlock /\ eeprom_present[ch] /\ data_valid[ch] THEN ZeroBlock
    ELSE eeprom_data[ch]

\* "Poll EEPROMs every POLL_INTERVAL_MS (using 100ms ticks)", then vTaskDelay(100)
BoardPollEeproms ==
    /\ board_pc = "eeprom"
    /\ IF poll_age_ms >= POLL_INTERVAL_MS
       THEN /\ poll_age_ms' = 0
            /\ \E ok \in [Channels -> BOOLEAN] :
                 /\ data_valid' = [ch \in Channels |-> PolledValid(ch, ok[ch])]
                 /\ eeprom_data' = [ch \in Channels |-> PolledData(ch, ok[ch])]
            /\ eeprom_present' = [ch \in Channels |-> token[ch] # NoBlock]
       ELSE UNCHANGED <<poll_age_ms, eeprom_present, data_valid, eeprom_data>>
    /\ board_pc' = "poll"
    /\ msg' = NoMsg /\ out' = <<>>
    /\ UNCHANGED <<boardstate, token, board_button_was_pressed, send_blocks, send_i,
                   board_button_down, board_held_isr, board_held_poll,
                   board_elapsed_ms, bcast_age_ms>>
    /\ UNCHANGED notboard

----------------------------------------------------------------------------
(* The board in an arbitrary radio environment                             *)

BoardMsgs ==
    {PairAckMsg(r, r, SIZEOF_PAIR_ACK) : r \in RobotMacs}
    \cup {UnpairMsg(r, SIZEOF_UNPAIR) : r \in RobotMacs}
    \cup {ProgramAckMsg("R", 1, SIZEOF_PROGRAM_ACK)}

\* the robot is not part of the behaviour
RoboOff ==
    /\ InitRx /\ InitLoop
    /\ InitBoot /\ nvs_paired_mac = "none"
    /\ g_src = "none" /\ g_n = 0 /\ g_sent = [i \in Slots |-> NoBlock]
    /\ g_nblk = 0 /\ g_clean = FALSE

InitBoard ==
    /\ role = "board" /\ other = Alone
    /\ RoboOff /\ InitTask /\ OthersOff
    /\ msg = NoMsg /\ out = <<>>
    /\ g_presses = 0 /\ g_entries = 0 /\ g_accepted = FALSE /\ g_acked = {} /\ g_old = "none"
    /\ InitBoardStatics
    /\ board_nvs_paired_mac \in {"none", "R"} /\ InitBoardBoot
    /\ token = [ch \in Channels |-> IF ch = 0 THEN BLOCK_BEGIN ELSE BLOCK_FORWARD]

BoardDeliverAny == \E m \in BoardMsgs : BoardDeliver(m)

NextBoard ==
    \/ BoardDeliverAny
    \/ board_button_isr_press(MaxPresses)
    \/ board_button_isr_release
    \/ BoardTick(TimeStepMs)
    \/ BoardMainPoll
    \/ BoardUnpairSend
    \/ BoardUnpairClear
    \/ BoardMainCheck
    \/ BoardSendBlock
    \/ BoardPollEeproms

SpecBoard == InitBoard /\ [][NextBoard]_vars

----------------------------------------------------------------------------
(* The board's button handling on a finer clock, with a silent radio       *)

NextBoardButton ==
    \/ board_button_isr_press(MaxBoardPresses)
    \/ board_button_isr_release
    \/ BoardTick(BoardTimeStepMs)
    \/ BoardMainPoll
    \/ BoardUnpairSend
    \/ BoardUnpairClear
    \/ BoardMainCheck
    \/ BoardSendBlock
    \/ BoardPollEeproms

SpecBoardButton == InitBoard /\ [][NextBoardButton]_vars

----------------------------------------------------------------------------
(* Either device on its own, in an arbitrary radio environment             *)

InitDevices == InitRobo \/ InitBoard

NextDevices ==
    \/ role = "robo" /\ NextRobo
    \/ role = "board" /\ NextBoard

SpecDevices == InitDevices /\ [][NextDevices]_vars

----------------------------------------------------------------------------
(* Frames shorter and longer than the struct of their discriminant          *)

\* bytes a frame may lack or carry beyond sizeof of its struct
MaxExtra == 1

\* sizeof of the struct a discriminant stands for (espnow_protocol.h)
DefinedLength(type) ==
    CASE type = MSG_PROGRAM_START -> SIZEOF_PROGRAM_START
      [] type = MSG_BLOCK_DATA    -> SIZEOF_BLOCK_MSG
      [] type = MSG_PROGRAM_END   -> SIZEOF_PROGRAM_END
      [] type = MSG_PROGRAM_ACK   -> SIZEOF_PROGRAM_ACK
      [] type = MSG_PAIR_REQUEST  -> SIZEOF_PAIR_REQUEST
      [] type = MSG_PAIR_ACK      -> SIZEOF_PAIR_ACK
      [] type = MSG_UNPAIR        -> SIZEOF_UNPAIR
      [] OTHER                    -> 0

Lengths(size) == (size - MaxExtra) .. (size + MaxExtra)

\* the fields of a struct lie at fixed offsets: the callback reads the same
\* values from a frame with trailing bytes, and reads none from a short one
RoboLengthMsgs ==
    {ProgramStartMsg("A", 1, n) : n \in Lengths(SIZEOF_PROGRAM_START)}
    \cup {BlockDataMsg("A", 0, BLOCK_FORWARD, n) : n \in Lengths(SIZEOF_BLOCK_MSG)}
    \cup {ProgramEndMsg("A", n) : n \in Lengths(SIZEOF_PROGRAM_END)}
    \cup {PairRequestMsg("A", "A", n) : n \in Lengths(SIZEOF_PAIR_REQUEST)}
    \cup {UnpairMsg("A", n) : n \in Lengths(SIZEOF_UNPAIR)}

BoardLengthMsgs ==
    {PairAckMsg("R", "R", n) : n \in Lengths(SIZEOF_PAIR_ACK)}
    \cup {UnpairMsg("R", n) : n \in Lengths(SIZEOF_UNPAIR)}
    \cup {ProgramAckMsg("R", 1, n) : n \in Lengths(SIZEOF_PROGRAM_ACK)}

InitLengths == InitTransport \/ InitBoard

DeliverRoboLengths ==
    \E m \in RoboLengthMsgs :
        /\ (m.type = MSG_BLOCK_DATA) => g_nblk < MaxRxCount
        /\ Deliver(m)

DeliverBoardLengths == \E m \in BoardLengthMsgs : BoardDeliver(m)

NextBoardLengths ==
    \/ DeliverBoardLengths
    \/ board_button_isr_press(MaxPresses)
    \/ board_button_isr_release
    \/ BoardTick(TimeStepMs)
    \/ BoardMainPoll
    \/ BoardUnpairSend
    \/ BoardUnpairClear
    \/ BoardMainCheck
    \/ BoardSendBlock
    \/ BoardPollEeproms

NextLengths ==
    \/ role = "robo" /\ DeliverRoboLengths
    \/ role = "board" /\ NextBoardLengths

SpecLengths == InitLengths /\ [][NextLengths]_vars

----------------------------------------------------------------------------
(* Board and robot side by side: what one sends the other receives          *)

\* the frame the callback of the receiver is handed for a payload sent by src
ReceivedFrame(s, src) ==
    [f \in (DOMAIN s \ {"dest"}) \cup {"src", "len"} |->
        IF f = "src" THEN src
        ELSE IF f = "len" THEN DefinedLength(s.type)
        ELSE s[f]]

\* both devices booted with each other's address in NVS, Begin and Forward
\* tokens on the two channels of the board
InitLink ==
    /\ role = "link" /\ other = Alone /\ OthersOff
    /\ InitRx /\ InitObservation /\ InitLoop /\ InitTask
    /\ nvs_paired_mac = BOARD_MAC /\ has_paired_mac = TRUE /\ paired_mac = BOARD_MAC
    /\ peers = {} /\ pairing_requested = FALSE
    /\ pairing_active = FALSE /\ pairing_success = FALSE
    /\ InitBoardStatics
    /\ board_nvs_paired_mac = MY_MAC /\ InitBoardBoot
    /\ token = [ch \in Channels |-> IF ch = 0 THEN BLOCK_BEGIN ELSE BLOCK_FORWARD]

\* nothing is on the air
Quiet == out = <<>>

\* esp_now_send of the board: the robot's callback runs with the frame
RadioToRobo ==
    /\ ~Quiet
    /\ Head(out).dest \in {MY_MAC, ESPNOW_BROADCAST_MAC}
    /\ Deliver(ReceivedFrame(Head(out), BOARD_MAC))

\* esp_now_send of the robot: the board's callback runs with the frame
RadioToBoard ==
    /\ ~Quiet
    /\ Head(out).dest = BOARD_MAC
    /\ BoardDeliver(ReceivedFrame(Head(out), MY_MAC))

Radio == RadioToRobo \/ RadioToBoard

\* the board's interrupt and main loop; a frame sent is received within the
\* delay that follows its esp_now_send
BoardLoop ==
    \/ BoardMainPoll
    \/ BoardUnpairSend
    \/ BoardUnpairClear
    \/ BoardMainCheck
    \/ BoardSendBlock
    \/ BoardPollEeproms

NextLink ==
    \/ RadioToRobo
    \/ RadioToBoard
    \/ Quiet /\ board_button_isr_press(MaxPresses)
    \/ Quiet /\ board_button_isr_release
    \/ Quiet /\ BoardTick(TimeStepMs)
    \/ Quiet /\ BoardMainPoll
    \/ Quiet /\ BoardUnpairSend
    \/ Quiet /\ BoardUnpairClear
    \/ Quiet /\ BoardMainCheck
    \/ Quiet /\ BoardSendBlock
    \/ Quiet /\ BoardPollEeproms
    \/ TaskTake
    \/ TaskCall
    \/ ExecDispatch
    \/ ExecReturn

SpecLink == InitLink /\ [][NextLink]_vars

\* the main loop of the board, the Wi-Fi task and the executor task all run
SpecLinkFair ==
    SpecLink /\ WF_vars(Quiet /\ BoardLoop) /\ WF_vars(Radio) /\ WF_vars(NextTask)


----------------------------------------------------------------------------
(* One board and two robots: the robot variables describe the robot at     *)
(* hand, other.st keeps the statics of the robot that is not at hand, and  *)
(* other.pending the frames of the board each robot has yet to receive.    *)
(* No button is pressed during the behaviour: button_was_pressed,          *)
(* button_down, held_isr and held_poll are the same for both robots.       *)

\* the statics of main.c that differ from one robot to the other
Statics ==
    [paired_mac |-> paired_mac, has_paired_mac |-> has_paired_mac,
     pairing_requested |-> pairing_requested, pairing_active |-> pairing_active,
     pairing_success |-> pairing_success, nvs_paired_mac |-> nvs_paired_mac,
     peers |-> peers, main_pc |-> main_pc, elapsed_ms |-> elapsed_ms]

\* load_paired_mac at boot, then "Enter pairing mode" after a long press, up
\* to the test of has_paired_mac
EnteredPairing(nvs) ==
    [paired_mac |-> IF nvs # "none" THEN nvs ELSE ZERO_MAC,
     has_paired_mac |-> nvs # "none",
     pairing_requested |-> FALSE, pairing_active |-> TRUE, pairing_success |-> FALSE,
     nvs_paired_mac |-> nvs, peers |-> {}, main_pc |-> "unpair_send", elapsed_ms |-> 0]

\* the robot at hand has the statics st
AtHand(st) ==
    /\ paired_mac = st.paired_mac /\ has_paired_mac = st.has_paired_mac
    /\ pairing_requested = st.pairing_requested /\ pairing_active = st.pairing_active
    /\ pairing_success = st.pairing_success /\ nvs_paired_mac = st.nvs_paired_mac
    /\ peers = st.peers /\ main_pc = st.main_pc /\ elapsed_ms = st.elapsed_ms

\* every device has just entered pairing mode after a long press; before
\* that nobody was paired, or the board and the robot at hand were paired
\* with each other
InitPairing ==
    /\ role = "pair" /\ OthersOff
    /\ InitRx /\ InitObservation /\ InitTask
    /\ button_was_pressed = FALSE /\ button_down = FALSE
    /\ held_isr = LONG_PRESS_US /\ held_poll = 0
    /\ \E was \in BOOLEAN :
          /\ AtHand(EnteredPairing(IF was THEN BOARD_MAC ELSE "none"))
          /\ board_nvs_paired_mac = (IF was THEN "R" ELSE "none")
    /\ other = [me |-> "R", it |-> "S", st |-> EnteredPairing("none"),
                pending |-> [r \in RobotMacs |-> <<>>]]
    /\ InitBoardBoot
    /\ board_pairing_requested = FALSE /\ board_pairing_active = TRUE
    /\ board_pairing_success = FALSE /\ send_requested = FALSE
    /\ eeprom_present = [ch \in Channels |-> FALSE]
    /\ data_valid = [ch \in Channels |-> FALSE]
    /\ eeprom_data = [ch \in Channels |-> ZeroBlock]
    /\ token = [ch \in Channels |-> NoBlock]
    /\ board_pc = "unpair_send" /\ board_button_was_pressed = FALSE
    /\ send_blocks = <<>> /\ send_i = 0
    /\ board_button_down = FALSE /\ board_held_isr = LONG_PRESS_US
    /\ board_held_poll = 0 /\ board_elapsed_ms = 0
    /\ bcast_age_ms = PAIR_BCAST_MS /\ poll_age_ms = POLL_INTERVAL_MS

\* every robot has received what the board sent
Calm == Quiet /\ \A r \in RobotMacs : other.pending[r] = <<>>

\* esp_now_send of the board: the frame is on its way to the robots it is
\* addressed to
OnAir ==
    /\ ~Quiet
    /\ Head(out).dest # BOARD_MAC
    /\ other' = [other EXCEPT !.pending =
                    [r \in RobotMacs |->
                        IF Head(out).dest \in {r, ESPNOW_BROADCAST_MAC}
                        THEN Append(other.pending[r], ReceivedFrame(Head(out), BOARD_MAC))
                        ELSE other.pending[r]]]
    /\ out' = Tail(out)
    /\ msg' = NoMsg
    /\ UNCHANGED <<robovars, ghostpair, role, boardvars, taskvars, ghosthand, othervars>>

\* the callback of the robot at hand runs with the oldest frame it has yet
\* to receive
Hear ==
    /\ Quiet
    /\ other.pending[other.me] # <<>>
    /\ Handed(Head(other.pending[other.me]))
    /\ other' = [other EXCEPT !.pending[other.me] = Tail(@)]

\* the frame the board is handed for a payload of the robot at hand, whose
\* esp_read_mac gives other.me
SentByRobot(s) ==
    LET f == ReceivedFrame(s, other.me)
    IN  IF s.type = MSG_PAIR_ACK THEN [f EXCEPT !.mac = other.me] ELSE f

\* esp_now_send of the robot at hand: the board's callback runs with the frame
RobotToBoard ==
    /\ ~Quiet
    /\ Head(out).dest = BOARD_MAC
    /\ BoardDeliver(SentByRobot(Head(out)))

\* the other robot comes to hand
Turn ==
    /\ paired_mac' = other.st.paired_mac
    /\ has_paired_mac' = other.st.has_paired_mac
    /\ pairing_requested' = other.st.pairing_requested
    /\ pairing_active' = other.st.pairing_active
    /\ pairing_success' = other.st.pairing_success
    /\ nvs_paired_mac' = other.st.nvs_paired_mac
    /\ peers' = other.st.peers
    /\ main_pc' = other.st.main_pc
    /\ elapsed_ms' = other.st.elapsed_ms
    /\ other' = [other EXCEPT !.me = other.it, !.it = other.me, !.st = Statics]
    /\ msg' = NoMsg /\ out' = <<>>
    /\ UNCHANGED <<rxvars, button_was_pressed, button_down, held_isr, held_poll,
                   ghostrx, ghostpair, role, boardvars, taskvars, ghosthand, othervars>>

\* the main loops and clocks of the three devices; a frame is handed to the
\* radio before its sender goes on, and the robots' callbacks have run before
\* the board's main loop or clock goes on
NextPairing ==
    \/ OnAir
    \/ RobotToBoard
    \/ Hear
    \/ Quiet /\ Turn
    \/ Quiet /\ Tick
    \/ Quiet /\ MainPoll
    \/ Quiet /\ MainUnpairSend
    \/ Quiet /\ MainUnpairClear
    \/ Quiet /\ MainCheck
    \/ Calm /\ BoardTick(TimeStepMs)
    \/ Calm /\ BoardMainPoll
    \/ Calm /\ BoardUnpairSend
    \/ Calm /\ BoardUnpairClear
    \/ Calm /\ BoardMainCheck
    \/ Calm /\ BoardPollEeproms

SpecPairing == InitPairing /\ [][NextPairing]_vars
----------------------------------------------------------------------------
(* Expression animator (robo/main/eyes.c)                                  *)

TRANSITION_MS == 250
SLEEP_TRANSITION_MS == 500
BLINK_CLOSE_MS == 80
BLINK_OPEN_MS == 120
FPS == 30
FRAME_MS == 1000 \div FPS
EYES_IDLE_TIMEOUT_MS == 60 * 1000
BLINK_FULL_LID == 70
TEAR_SPEED == 1
TEAR_RANGE == 30
DIZZY_SPEED == 12

\* eyes_expression_t and eyes_look_dir_t
Expressions ==
    {"NORMAL", "HAPPY", "SAD", "ANGRY", "SURPRISED", "SLEEPING", "EXCITED", "FOCUSED",
     "SCARED", "CRYING", "CRYING_NO_TEARS", "SWEATING", "DIZZY"}
LookDirs == {"CENTER", "LEFT", "RIGHT", "UP", "DOWN"}

\* C integer division truncates toward zero
CDiv(a, b) == IF a >= 0 THEN a \div b ELSE -((-a) \div b)

Keyframe(w, h, r, top, bot, tilt, pw, ph, tilt_r, ov) ==
    [eye_w |-> w, eye_h |-> h, eye_r |-> r, lid_top |-> top, lid_bot |-> bot,
     lid_tilt |-> tilt, pupil_w |-> pw, pupil_h |-> ph, lid_tilt_r |-> tilt_r,
     overlay |-> ov]

\* s_keyframes with CONFIG_ROBO_EYES_STYLE_PUPIL
PupilKeyframes ==
    [e \in Expressions |->
        CASE e = "NORMAL"    -> Keyframe(30, 34, 14,  0,  0,   0, 10, 12,   0, "NONE")
          [] e = "HAPPY"     -> Keyframe(30, 34, 14,  0, 18,   0, 10, 12,   0, "NONE")
          [] e = "SAD"       -> Keyframe(28, 30, 12,  8,  0,  -8, 11, 13,   8, "NONE")
          [] e = "ANGRY"     -> Keyframe(34, 26,  6, 18,  0,  14,  7,  8, -14, "NONE")
          [] e = "SURPRISED" -> Keyframe(34, 38, 18,  0,  0,   0,  7,  8,   0, "NONE")
          [] e = "SLEEPING"  -> Keyframe(28, 34, 14, 30,  0,   0, 10, 12,   0, "NONE")
          [] e = "EXCITED"   -> Keyframe(34, 36, 16,  0,  0,   0, 11, 13,   0, "NONE")
          [] e = "FOCUSED"   -> Keyframe(28, 28, 12,  4,  4,   0, 13, 14,   0, "NONE")
          [] e = "SCARED"    -> Keyframe(32, 36, 16,  0,  0,  -4,  6,  6,   4, "NONE")
          [] e = "CRYING"    -> Keyframe(28, 30, 12, 10, 14,  -6, 10, 12,   6, "TEARS")
          [] e = "CRYING_NO_TEARS" -> Keyframe(28, 30, 12, 10, 14, -6, 10, 12, 6, "NONE")
          [] e = "SWEATING"  -> Keyframe(30, 32, 14,  2,  0,  -3,  8,  9,   3, "SWEAT")
          [] e = "DIZZY"     -> Keyframe(32, 32, 16,  0,  0,   0,  0,  0,   0, "NONE")]

\* s_keyframes without CONFIG_ROBO_EYES_STYLE_PUPIL
SolidKeyframes ==
    [e \in Expressions |->
        CASE e = "NORMAL"    -> Keyframe(30, 34, 14,  0,  0,   0, 0, 0,   0, "NONE")
          [] e = "HAPPY"     -> Keyframe(32, 34, 16,  0, 24,   0, 0, 0,   0, "NONE")
          [] e = "SAD"       -> Keyframe(26, 28, 12, 12,  0, -10, 0, 0,  10, "NONE")
          [] e = "ANGRY"     -> Keyframe(34, 24,  4, 20,  4,  16, 0, 0, -16, "NONE")
          [] e = "SURPRISED" -> Keyframe(36, 40, 20,  0,  0,   0, 0, 0,   0, "NONE")
          [] e = "SLEEPING"  -> Keyframe(28, 34, 14, 32,  0,   0, 0, 0,   0, "NONE")
          [] e = "EXCITED"   -> Keyframe(36, 38, 18,  0,  0,   0, 0, 0,   0, "NONE")
          [] e = "FOCUSED"   -> Keyframe(28, 28, 10,  8,  8,   0, 0, 0,   0, "NONE")
          [] e = "SCARED"    -> Keyframe(32, 36, 16,  0,  0,  -4, 0, 0,   4, "NONE")
          [] e = "CRYING"    -> Keyframe(28, 30, 12, 10, 14,  -6, 0, 0,   6, "TEARS")
          [] e = "CRYING_NO_TEARS" -> Keyframe(28, 30, 12, 10, 14, -6, 0, 0, 6, "NONE")
          [] e = "SWEATING"  -> Keyframe(30, 32, 14,  2,  0,  -3, 0, 0,   3, "SWEAT")
          [] e = "DIZZY"     -> Keyframe(32, 32, 16,  0,  0,   0, 0, 0,   0, "NONE")]

s_keyframes(pupil) == IF pupil THEN PupilKeyframes ELSE SolidKeyframes

s_look_offsets ==
    [d \in LookDirs |->
        CASE d = "CENTER" -> [dx |-> 0, dy |-> 0]
          [] d = "LEFT"   -> [dx |-> -10, dy |-> 0]
          [] d = "RIGHT"  -> [dx |-> 10, dy |-> 0]
          [] d = "UP"     -> [dx |-> 0, dy |-> -8]
          [] d = "DOWN"   -> [dx |-> 0, dy |-> 8]]

\* the interpolated fields of anim_state_t, in the order they are assigned
AnimFields ==
    <<"eye_w", "eye_h", "eye_r", "lid_top", "lid_bot", "lid_tilt_l", "lid_tilt_r",
      "pupil_w", "pupil_h", "pupil_dx", "pupil_dy", "blink_lid">>
AnimFieldSet == {AnimFields[i] : i \in 1 .. Len(AnimFields)}

\* the anim_state_t that set_target_from_expression builds from a keyframe and
\* a look offset (x256)
TargetOf(kf, look) ==
    [eye_w |-> kf.eye_w * 256, eye_h |-> kf.eye_h * 256, eye_r |-> kf.eye_r * 256,
     lid_top |-> kf.lid_top * 256, lid_bot |-> kf.lid_bot * 256,
     lid_tilt_l |-> kf.lid_tilt * 256,
     lid_tilt_r |-> (IF kf.lid_tilt_r # 0 THEN kf.lid_tilt_r ELSE -kf.lid_tilt) * 256,
     pupil_w |-> kf.pupil_w * 256, pupil_h |-> kf.pupil_h * 256,
     pupil_dx |-> look.dx * 256, pupil_dy |-> look.dy * 256,
     blink_lid |-> 0, overlay |-> kf.overlay]

set_target_from_expression(e) ==
    [e EXCEPT !.s_target = TargetOf(s_keyframes(e.pupil)[e.s_expr], s_look_offsets[e.s_look])]

snap_current_to_target(e) ==
    [e EXCEPT !.s_current = e.s_target, !.s_transition_remaining = 0]

lerp(a, b, t256) == a + CDiv((b - a) * t256, 256)

\* the outcomes of random_range(lo, hi) that the model draws
RandomPicks(lo, hi) == {lo, hi}

advance_transition(e, dt_ms) ==
    IF e.s_transition_remaining <= 0
    THEN [e EXCEPT !.s_current = e.s_target]
    ELSE LET last == e.s_transition_remaining <= dt_ms
             t256 == IF last THEN 256 ELSE CDiv(dt_ms * 256, e.s_transition_remaining)
         IN  [e EXCEPT
                !.s_transition_remaining = IF last THEN 0 ELSE @ - dt_ms,
                !.s_current =
                    [f \in DOMAIN e.s_current |->
                        IF f = "overlay" THEN e.s_target.overlay
                        ELSE lerp(e.s_current[f], e.s_target[f], t256)]]

\* mutant: a request met during a blink is kept for the next tick
advance_blink_KeepsRequest(e, dt_ms, rnd) ==
    LET timer == e.s_auto_blink_timer - dt_ms
        fire  == timer <= 0 \/ e.s_blink_requested
        start == fire /\ e.s_blink_phase = "IDLE"
        phase == IF start THEN "CLOSING" ELSE e.s_blink_phase
        bt    == (IF start THEN BLINK_CLOSE_MS ELSE e.s_blink_timer)
                 - (IF phase = "IDLE" THEN 0 ELSE dt_ms)
    IN  [e EXCEPT
           !.s_auto_blink_timer = IF fire THEN rnd ELSE timer,
           !.s_blink_requested = IF start THEN FALSE ELSE @,
           !.s_blink_phase =
               IF phase = "CLOSING" THEN (IF bt <= 0 THEN "OPENING" ELSE "CLOSING")
               ELSE IF phase = "OPENING" THEN (IF bt <= 0 THEN "IDLE" ELSE "OPENING")
               ELSE "IDLE",
           !.s_blink_timer =
               IF phase = "CLOSING" /\ bt <= 0 THEN BLINK_OPEN_MS ELSE bt,
           !.s_current.blink_lid =
               IF phase = "CLOSING"
               THEN CDiv(BLINK_FULL_LID * 256 * (BLINK_CLOSE_MS - bt), BLINK_CLOSE_MS)
               ELSE IF phase = "OPENING" /\ bt > 0
               THEN CDiv(BLINK_FULL_LID * 256 * bt, BLINK_OPEN_MS)
               ELSE 0]

\* rnd is the value random_range(2000, 6000) returns if it is called
advance_blink(e, dt_ms, rnd) ==
    LET timer == e.s_auto_blink_timer - dt_ms
        fire  == timer <= 0 \/ e.s_blink_requested
        start == fire /\ e.s_blink_phase = "IDLE"
        phase == IF start THEN "CLOSING" ELSE e.s_blink_phase
        bt    == (IF start THEN BLINK_CLOSE_MS ELSE e.s_blink_timer)
                 - (IF phase = "IDLE" THEN 0 ELSE dt_ms)
    IN  [e EXCEPT
           !.s_auto_blink_timer = IF fire THEN rnd ELSE timer,
           !.s_blink_requested = IF fire THEN FALSE ELSE @,
           !.s_blink_phase =
               IF phase = "CLOSING" THEN (IF bt <= 0 THEN "OPENING" ELSE "CLOSING")
               ELSE IF phase = "OPENING" THEN (IF bt <= 0 THEN "IDLE" ELSE "OPENING")
               ELSE "IDLE",
           !.s_blink_timer =
               IF phase = "CLOSING" /\ bt <= 0 THEN BLINK_OPEN_MS ELSE bt,
           !.s_current.blink_lid =
               IF phase = "CLOSING"
               THEN CDiv(BLINK_FULL_LID * 256 * (BLINK_CLOSE_MS - bt), BLINK_CLOSE_MS)
               ELSE IF phase = "OPENING" /\ bt > 0
               THEN CDiv(BLINK_FULL_LID * 256 * bt, BLINK_OPEN_MS)
               ELSE 0]

\* mutant: the animator falls asleep on every tick past the timeout
advance_idle_NoFlag(e, dt_ms) ==
    IF e.s_idle_timer + dt_ms >= EYES_IDLE_TIMEOUT_MS
    THEN [set_target_from_expression(
             [e EXCEPT !.s_idle_timer = IF @ >= EYES_IDLE_TIMEOUT_MS THEN @ ELSE @ + dt_ms,
                       !.s_is_sleeping = TRUE,
                       !.s_expr = "SLEEPING", !.s_look = "CENTER"])
          EXCEPT !.s_transition_remaining = SLEEP_TRANSITION_MS]
    ELSE [e EXCEPT !.s_idle_timer = @ + dt_ms]

advance_idle(e, dt_ms) ==
    IF e.s_is_sleeping THEN e
    ELSE IF e.s_idle_timer + dt_ms >= EYES_IDLE_TIMEOUT_MS
    THEN [set_target_from_expression(
             [e EXCEPT !.s_idle_timer = @ + dt_ms, !.s_is_sleeping = TRUE,
                       !.s_expr = "SLEEPING", !.s_look = "CENTER"])
          EXCEPT !.s_transition_remaining = SLEEP_TRANSITION_MS]
    ELSE [e EXCEPT !.s_idle_timer = @ + dt_ms]

\* "Advance tear drop animation", "Advance dizzy angle"
advance_overlays(e) ==
    [e EXCEPT
       !.s_tear_y_offset =
           IF e.s_current.overlay = "TEARS"
           THEN (IF @ + TEAR_SPEED >= TEAR_RANGE THEN 0 ELSE @ + TEAR_SPEED)
           ELSE @,
       !.s_dizzy_angle =
           IF e.s_expr = "DIZZY" THEN (@ + DIZZY_SPEED) % 360 ELSE @]

\* the statics after one eyes_tick (rendering reads them and changes none)
eyes_tick(e, rnd) ==
    advance_overlays(advance_blink(advance_transition(advance_idle(e, FRAME_MS),
                                                      FRAME_MS), FRAME_MS, rnd))

eyes_set_expression(e, expr) ==
    IF expr \notin Expressions THEN e
    ELSE [set_target_from_expression(
             [e EXCEPT !.s_idle_timer = 0, !.s_is_sleeping = FALSE, !.s_expr = expr])
          EXCEPT !.s_transition_remaining = TRANSITION_MS]

eyes_set_look_direction(e, dir) ==
    IF e.pupil
    THEN [set_target_from_expression([e EXCEPT !.s_look = dir])
          EXCEPT !.s_transition_remaining = TRANSITION_MS]
    ELSE e

eyes_blink(e) == [e EXCEPT !.s_blink_requested = TRUE]

\* the zero-initialised statics, then eyes_init; pupil is the build option
\* CONFIG_ROBO_EYES_STYLE_PUPIL, rnd the value of random_range(1000, 3000)
eyes_init(pupil, rnd) ==
    LET zero == [f \in AnimFieldSet \cup {"overlay"} |-> IF f = "overlay" THEN "NONE" ELSE 0]
        e0 == [pupil |-> pupil,
               s_current |-> zero, s_target |-> zero, s_transition_remaining |-> 0,
               s_expr |-> "NORMAL", s_look |-> "CENTER",
               s_blink_phase |-> "IDLE", s_blink_timer |-> 0,
               s_auto_blink_timer |-> 0, s_blink_requested |-> FALSE,
               s_tear_y_offset |-> 0, s_dizzy_angle |-> 0,
               s_idle_timer |-> 0, s_is_sleeping |-> FALSE]
    IN  [snap_current_to_target(set_target_from_expression(e0))
         EXCEPT !.s_auto_blink_timer = rnd]

----------------------------------------------------------------------------
(* The animator with whole ticks and whole calls                           *)

\* what the callers ask for
ExprInputs == {"HAPPY", "ANGRY"}
LookInputs == {"LEFT"}

\* observation: public calls made, ticks and tick time since the last call
\* that restarted the transition, tick time since the last setExpression call
\* (or eyes_init), times the animator fell asleep since then, and the
\* arguments of the last calls
InitGhostEyes ==
    [calls |-> 0, since |-> 0, idle_ms |-> 0, naps |-> 0,
     expr |-> "NORMAL", look |-> "CENTER", last |-> "eyes_init", woken |-> FALSE,
     goal |-> <<>>, targeted |-> FALSE, by |-> "none"]

\* the tick started the drowsy transition
FellAsleep(e2) == e2.s_transition_remaining = SLEEP_TRANSITION_MS - FRAME_MS

ObserveTick(e2) ==
    g_eyes' = [g_eyes EXCEPT
                 !.last = "eyes_tick",
                 !.since = Saturate(@ + 1, MaxSince),
                 !.idle_ms = Saturate(@ + FRAME_MS, EYES_IDLE_TIMEOUT_MS),
                 !.naps = IF FellAsleep(e2) THEN Saturate(@ + 1, 2) ELSE @]

noteyes == <<statevars, rxvars, loopvars, envvars, msg, out, ghostrx, ghostpair,
             role, other, boardvars, taskvars, ghosthand, prgvars>>

\* eyes_task: one frame; picks are the outcomes of random_range(2000, 6000)
EyesTick(picks) ==
    /\ eyes_pc = FramePc
    /\ \E rnd \in picks :
          /\ eyes' = eyes_tick(eyes, rnd)
          /\ ObserveTick(eyes')
    /\ UNCHANGED <<eyes_pc, eyes_call>>
    /\ UNCHANGED noteyes

EyesSetExpression(max) ==
    /\ eyes_pc = FramePc /\ eyes_call = NoCall
    /\ g_eyes.calls < max
    /\ \E expr \in ExprInputs :
          /\ eyes' = eyes_set_expression(eyes, expr)
          /\ g_eyes' = [g_eyes EXCEPT !.calls = @ + 1, !.since = 0, !.idle_ms = 0,
                                      !.naps = 0, !.expr = expr,
                                      !.goal = eyes'.s_target, !.targeted = TRUE,
                                      !.last = "eyes_set_expression",
                                      !.by = "eyes_set_expression",
                                      !.woken = @ \/ eyes.s_is_sleeping]
    /\ UNCHANGED <<eyes_pc, eyes_call>>
    /\ UNCHANGED noteyes

EyesSetLookDirection(max) ==
    /\ eyes_pc = FramePc /\ eyes_call = NoCall
    /\ g_eyes.calls < max
    /\ \E dir \in LookInputs :
          /\ eyes' = eyes_set_look_direction(eyes, dir)
          /\ g_eyes' = [g_eyes EXCEPT !.calls = @ + 1,
                                      !.last = "eyes_set_look_direction",
                                      !.by = "eyes_set_look_direction",
                                      !.goal = eyes'.s_target, !.targeted = TRUE,
                                      !.since = 0,
                                      !.look = IF eyes.pupil THEN dir ELSE @]
    /\ UNCHANGED <<eyes_pc, eyes_call>>
    /\ UNCHANGED noteyes

EyesBlink(max) ==
    /\ eyes_pc = FramePc /\ eyes_call = NoCall
    /\ g_eyes.calls < max
    /\ eyes' = eyes_blink(eyes)
    /\ g_eyes' = [g_eyes EXCEPT !.calls = @ + 1, !.last = "eyes_blink"]
    /\ UNCHANGED <<eyes_pc, eyes_call>>
    /\ UNCHANGED noteyes

\* the robot's other tasks and the board are not part of the behaviour
OnlyEyes ==
    /\ role = "eyes" /\ other = Alone
    /\ InitBoardStatics
    /\ board_nvs_paired_mac = "none" /\ InitBoardBoot
    /\ token = [ch \in Channels |-> NoBlock]
    /\ InitRx /\ InitObservation /\ InitLoop /\ InitTask
    /\ InitBoot /\ nvs_paired_mac = "none"
    /\ eyes_pc = FramePc
    /\ eyes_call = NoCall
    /\ ProgrammerOff

\* right after eyes_init
InitEyes ==
    /\ OnlyEyes
    /\ \E pupil \in BOOLEAN, rnd \in RandomPicks(1000, 3000) : eyes = eyes_init(pupil, rnd)
    /\ g_eyes = [InitGhostEyes EXCEPT !.goal = eyes.s_target]

\* the dozing animator: sixty seconds of ticks, one call in between
NextEyesIdle ==
    \/ EyesTick({2000})
    \/ EyesSetExpression(MaxIdleCalls)
    \/ EyesSetLookDirection(MaxIdleCalls)
    \/ EyesBlink(MaxIdleCalls)

SpecEyesIdle == InitEyes /\ [][NextEyesIdle]_vars

----------------------------------------------------------------------------
(* The animator around its calls: the ticks that follow a call             *)

RECURSIVE QuietTicks(_, _)
\* the statics after n ticks without a call
QuietTicks(e, n) ==
    IF n = 0 THEN e
    ELSE IF n = 1 THEN eyes_tick(e, 2000)
    ELSE LET half == QuietTicks(e, n \div 2)
         IN  \* the idle timer only counts up: the first half is evaluated first
             IF half.s_idle_timer < 0 THEN half ELSE QuietTicks(half, n - n \div 2)

\* ticks of an animator left alone: a few short of the idle timeout
DrowsyTicks == (EYES_IDLE_TIMEOUT_MS \div FRAME_MS) - MaxSince \div 2

\* right after eyes_init, or left alone for almost sixty seconds
InitEyesAwake ==
    /\ OnlyEyes
    /\ \E pupil \in BOOLEAN, rnd \in RandomPicks(1000, 3000), n \in {0, DrowsyTicks} :
          eyes = QuietTicks(eyes_init(pupil, rnd), n)
    /\ g_eyes = [InitGhostEyes EXCEPT !.goal = eyes.s_target,
                                      !.idle_ms = eyes.s_idle_timer]

\* eyes_task: one frame, followed for MaxSince frames after a call
EyesTickAfterCall ==
    /\ g_eyes.since < MaxSince
    /\ EyesTick(RandomPicks(2000, 6000))

NextEyes ==
    \/ EyesTickAfterCall
    \/ EyesSetExpression(MaxEyeCalls)
    \/ EyesSetLookDirection(MaxEyeCalls)
    \/ EyesBlink(MaxEyeCalls)

SpecEyes == InitEyesAwake /\ [][NextEyes]_vars

----------------------------------------------------------------------------
(* The animator with eyes_task and a calling task interleaved              *)
(* eyes_task has priority 1, the executor task priority 5 and app_main     *)
(* priority 1, none pinned to a core and no lock around the statics: a     *)
(* call runs between any two statements of eyes_tick and eyes_tick between *)
(* any two statements of a call. The statements are grouped into the       *)
(* steps below; set_target_from_expression is cut once, after eye_r.       *)

\* what the calling task asks for
RaceExprInputs == {"HAPPY"}

\* the fields set_target_from_expression has written when it is cut
TargetHead == {"eye_w", "eye_h", "eye_r"}

\* set_target_from_expression, the assignments to the fields in fs, with kf
\* and look taken when the function was entered
WriteTarget(e, expr, look, fs) ==
    LET t == TargetOf(s_keyframes(e.pupil)[expr], s_look_offsets[look])
    IN  [e EXCEPT !.s_target = [f \in DOMAIN @ |-> IF f \in fs THEN t[f] ELSE @[f]]]

TargetTail == (AnimFieldSet \cup {"overlay"}) \ TargetHead

\* advance_idle up to the call of set_target_from_expression
TickIdle ==
    /\ eyes_pc = FramePc
    /\ g_eyes.since < MaxSince
    /\ IF eyes.s_is_sleeping
       THEN /\ eyes_pc' = [at |-> "transition"]
            /\ eyes' = eyes
       ELSE /\ eyes' = [eyes EXCEPT !.s_idle_timer = @ + FRAME_MS]
            /\ eyes_pc' = IF eyes'.s_idle_timer >= EYES_IDLE_TIMEOUT_MS
                          THEN [at |-> "sleep"] ELSE [at |-> "transition"]
    /\ UNCHANGED <<eyes_call, g_eyes>>
    /\ UNCHANGED noteyes

\* s_is_sleeping = true ... s_look = EYES_CENTER, then the head of the target
TickSleep ==
    /\ eyes_pc = [at |-> "sleep"]
    /\ eyes' = WriteTarget([eyes EXCEPT !.s_is_sleeping = TRUE, !.s_expr = "SLEEPING",
                                        !.s_look = "CENTER"],
                           "SLEEPING", "CENTER", TargetHead)
    /\ eyes_pc' = [at |-> "target", expr |-> "SLEEPING", look |-> "CENTER"]
    /\ UNCHANGED <<eyes_call, g_eyes>>
    /\ UNCHANGED noteyes

\* the rest of the target, then s_transition_remaining = 500
TickSleepTarget ==
    /\ eyes_pc.at = "target"
    /\ eyes' = [WriteTarget(eyes, eyes_pc.expr, eyes_pc.look, TargetTail)
                EXCEPT !.s_transition_remaining = SLEEP_TRANSITION_MS]
    /\ eyes_pc' = [at |-> "transition"]
    /\ UNCHANGED <<eyes_call, g_eyes>>
    /\ UNCHANGED noteyes

\* advance_transition, advance_blink and the overlay counters
TickAdvance ==
    /\ eyes_pc = [at |-> "transition"]
    /\ \E rnd \in {2000} :
          /\ eyes' = advance_overlays(advance_blink(advance_transition(eyes, FRAME_MS),
                                                    FRAME_MS, rnd))
          /\ ObserveTick(eyes')
    /\ eyes_pc' = FramePc
    /\ UNCHANGED eyes_call
    /\ UNCHANGED noteyes

\* a task enters eyes_set_expression or eyes_set_look_direction: the
\* assignments before set_target_from_expression and the head of the target
CallEnter ==
    /\ eyes_pc.at # "off"
    /\ eyes_call = NoCall
    /\ g_eyes.calls < MaxEyeCalls
    /\ \/ \E expr \in RaceExprInputs :
            /\ eyes' = WriteTarget([eyes EXCEPT !.s_idle_timer = 0, !.s_is_sleeping = FALSE,
                                                !.s_expr = expr],
                                   expr, eyes.s_look, TargetHead)
            /\ eyes_call' = [fn |-> "eyes_set_expression", arg |-> expr,
                             expr |-> expr, look |-> eyes.s_look]
       \/ \E dir \in LookInputs :
            /\ eyes.pupil
            /\ eyes' = WriteTarget([eyes EXCEPT !.s_look = dir],
                                   eyes.s_expr, dir, TargetHead)
            /\ eyes_call' = [fn |-> "eyes_set_look_direction", arg |-> dir,
                             expr |-> eyes.s_expr, look |-> dir]
    /\ g_eyes' = [g_eyes EXCEPT !.calls = @ + 1]
    /\ UNCHANGED eyes_pc
    /\ UNCHANGED noteyes

\* the rest of the target, s_transition_remaining = TRANSITION_MS, return
CallReturn ==
    /\ eyes_call # NoCall
    /\ eyes' = [WriteTarget(eyes, eyes_call.expr, eyes_call.look, TargetTail)
                EXCEPT !.s_transition_remaining = TRANSITION_MS]
    /\ eyes_call' = NoCall
    /\ g_eyes' = [g_eyes EXCEPT
                     !.since = 0, !.targeted = TRUE, !.last = eyes_call.fn,
                     !.by = eyes_call.fn,
                     !.expr = IF eyes_call.fn = "eyes_set_expression" THEN eyes_call.arg ELSE @,
                     !.look = IF eyes_call.fn = "eyes_set_look_direction" THEN eyes_call.arg ELSE @,
                     !.idle_ms = IF eyes_call.fn = "eyes_set_expression" THEN 0 ELSE @]
    /\ UNCHANGED eyes_pc
    /\ UNCHANGED noteyes

NextEyesRace ==
    \/ TickIdle
    \/ TickSleep
    \/ TickSleepTarget
    \/ TickAdvance
    \/ CallEnter
    \/ CallReturn

SpecEyesRace == InitEyesAwake /\ [][NextEyesRace]_vars

----------------------------------------------------------------------------
(* Block programmer (block/main/programmer.c, block/main/led.c)            *)

PROGRAMMER_MAX_CHANNEL == 7
BLOCK_VERSION == 1
ERASED == 255
UINT16 == 65536

\* the closed catalog of type ids
block_type_valid(type) ==
    type \in {1, 2} \cup (16 .. 21) \cup (32 .. 35) \cup (48 .. 52) \cup (64 .. 66)
             \cup {80} \cup (96 .. 107) \cup (128 .. 140) \cup (112 .. 116)

RECURSIVE XorBits(_, _, _)
\* a ^ b on n bits
XorBits(a, b, n) ==
    IF n = 0 THEN 0
    ELSE (((a % 2) + (b % 2)) % 2) + 2 * XorBits(a \div 2, b \div 2, n - 1)

\* bytes 0x00 .. 0x08 of a block_data_t
Raw(b) == <<b.type, b.subtype, b.param1, b.param2,
            b.serial[1], b.serial[2], b.serial[3], b.serial[4], b.version>>

RECURSIVE XorFold(_, _)
XorFold(raw, i) == IF i = 0 THEN 0 ELSE XorBits(XorFold(raw, i - 1), raw[i], 8)

block_calc_checksum_First8(b) == XorFold(Raw(b), 8)

block_calc_checksum(b) == XorFold(Raw(b), 9)

\* block_data_t blk = {0}
ZeroRecord ==
    [type |-> 0, subtype |-> 0, param1 |-> 0, param2 |-> 0, serial |-> <<0, 0, 0, 0>>,
     version |-> 0, checksum |-> 0, reserved |-> 0, name |-> ""]

\* a token after eeprom_erase: every byte 0xFF
ErasedRecord ==
    [type |-> ERASED, subtype |-> ERASED, param1 |-> ERASED, param2 |-> ERASED,
     serial |-> <<ERASED, ERASED, ERASED, ERASED>>, version |-> ERASED,
     checksum |-> ERASED, reserved |-> ERASED, name |-> "erased"]

\* serial[0..3] for the counter value c
generate_serial_LowFirst(mac, c) == <<mac[1], mac[2], c % 256, (c \div 256) % 256>>

generate_serial(mac, c) == <<mac[1], mac[2], (c \div 256) % 256, c % 256>>

\* select_channel: sel is what eeprom_select_channel returns
select_channel(channel, sel) ==
    IF channel > PROGRAMMER_MAX_CHANNEL THEN "ESP_ERR_INVALID_ARG" ELSE sel

\* a storage operation that reports success and leaves one byte wrong
Spoiled(b) == [b EXCEPT !.param2 = XorBits(@, 1, 8)]

\* no record handed back
NoRecord == [none |-> TRUE]

\* what a call did: the programmer afterwards, the value returned, the record
\* written through out (NoRecord: none) and the storage operations issued
Outcome(p, ret, outrec, ops, warned) ==
    [prg |-> p, ret |-> ret, out |-> outrec, ops |-> ops, warned |-> warned]

\* io.sel, io.wr, io.rd are the results of eeprom_select_channel, eeprom_write
\* and eeprom_read ("ESP_OK", "ESP_FAIL", or "spoiled")
\* programmer_write_block from select_channel on
WriteValidated(p, channel, type, subtype, param1, param2, name, io) ==
    LET ret == select_channel(channel, io.sel)
        ops1 == IF channel > PROGRAMMER_MAX_CHANNEL THEN <<>> ELSE <<"select">>
    IN  IF ret # "ESP_OK" THEN Outcome(p, ret, NoRecord, ops1, FALSE)
        ELSE
        LET blk0 == [ZeroRecord EXCEPT
                        !.type = type, !.subtype = subtype, !.param1 = param1,
                        !.param2 = param2,
                        !.serial = generate_serial(p.mac_bytes, p.serial_counter),
                        !.version = BLOCK_VERSION, !.name = name]
            blk  == [blk0 EXCEPT !.checksum = block_calc_checksum(blk0)]
            p1   == [p EXCEPT !.serial_counter = (@ + 1) % UINT16]
        IN  IF io.wr = "ESP_FAIL"
            THEN Outcome([p1 EXCEPT !.current_state = "ERROR"], "ESP_FAIL", NoRecord,
                         <<"select", "write">>, FALSE)
            ELSE
            LET stored == IF io.wr = "spoiled" THEN Spoiled(blk) ELSE blk
                p2 == [p1 EXCEPT !.token = stored, !.written = blk]
            IN  IF io.rd # "ESP_OK" \/ stored # blk
                THEN Outcome([p2 EXCEPT !.current_state = "ERROR"],
                             "ESP_ERR_INVALID_RESPONSE", NoRecord,
                             <<"select", "write", "read">>, FALSE)
                ELSE Outcome([p2 EXCEPT !.current_state = "SUCCESS"], "ESP_OK", blk,
                             <<"select", "write", "read">>, FALSE)

programmer_write_block_NoTypeCheck(p, channel, type, subtype, param1, param2, name, io) ==
    WriteValidated(p, channel, type, subtype, param1, param2, name, io)

programmer_write_block(p, channel, type, subtype, param1, param2, name, io) ==
    IF ~block_type_valid(type) THEN Outcome(p, "ESP_ERR_INVALID_ARG", NoRecord, <<>>, FALSE)
    ELSE WriteValidated(p, channel, type, subtype, param1, param2, name, io)

\* eeprom_read fills *out only when it succeeds in the model; the record is
\* handed back whatever the checksum, with a warning on a mismatch
programmer_read_block(p, channel, io) ==
    LET ret == select_channel(channel, io.sel)
        ops1 == IF channel > PROGRAMMER_MAX_CHANNEL THEN <<>> ELSE <<"select">>
    IN  IF ret # "ESP_OK" THEN Outcome(p, ret, NoRecord, ops1, FALSE)
        ELSE IF io.rd # "ESP_OK" THEN Outcome(p, "ESP_FAIL", NoRecord, <<"select", "read">>, FALSE)
        ELSE Outcome(p, "ESP_OK", p.token, <<"select", "read">>,
                     p.token.checksum # block_calc_checksum(p.token))

\* io.er is the result of eeprom_erase
programmer_erase_block(p, channel, io) ==
    LET ret == select_channel(channel, io.sel)
        ops1 == IF channel > PROGRAMMER_MAX_CHANNEL THEN <<>> ELSE <<"select">>
    IN  IF ret # "ESP_OK" THEN Outcome(p, ret, NoRecord, ops1, FALSE)
        ELSE
        LET p1 == [p EXCEPT !.current_state = "PROGRAMMING"]
        IN  IF io.er = "ESP_FAIL"
            THEN Outcome([p1 EXCEPT !.current_state = "ERROR"], "ESP_FAIL", NoRecord,
                         <<"select", "erase">>, FALSE)
            ELSE
            LET p2 == [p1 EXCEPT !.token = IF io.er = "spoiled" THEN @ ELSE ErasedRecord]
            IN  IF io.rd # "ESP_OK"
                THEN Outcome([p2 EXCEPT !.current_state = "ERROR"], "ESP_FAIL", NoRecord,
                             <<"select", "erase", "read">>, FALSE)
                ELSE IF p2.token # ErasedRecord
                THEN Outcome([p2 EXCEPT !.current_state = "ERROR"],
                             "ESP_ERR_INVALID_RESPONSE", NoRecord,
                             <<"select", "erase", "read">>, FALSE)
                ELSE Outcome([p2 EXCEPT !.current_state = "SUCCESS"], "ESP_OK", NoRecord,
                             <<"select", "erase", "read">>, FALSE)

\* led_task, one round: the third flash of SUCCESS or ERROR ends in IDLE
led_task(p) ==
    IF p.flash_count + 1 >= 3
    THEN [p EXCEPT !.flash_count = 0, !.current_state = "IDLE"]
    ELSE [p EXCEPT !.flash_count = @ + 1]

\* what the host asks for
ChannelInputs == {0, PROGRAMMER_MAX_CHANNEL + 1}
TypeInputs == {BLOCK_FORWARD, 3}
Param1Inputs == {3}
NameInputs == {"Forward"}
IoResults == {"ESP_OK", "ESP_FAIL"}
WriteResults == {"ESP_OK", "ESP_FAIL", "spoiled"}
\* bit patterns by which a byte of the token changes under it
AlterMasks == {1}
\* the bytes 0 .. 8 that change together, numbered from 1
AlterSets == {{i} : i \in 1 .. 9} \cup {{1, 2}, {1, 2, 3}, {4, 9}}
\* the bytes 4 and 5 of the base MAC address
MacInputs == {<<171, 205>>}

notprg == <<statevars, rxvars, loopvars, envvars, msg, out, ghostrx, ghostpair,
            role, other, boardvars, taskvars, ghosthand, eyesvars>>

\* observation: the last call, what it returned, the caller's record, the
\* storage operations it issued, the serial stamped last, the record the
\* last eeprom_write was given, bytes altered since
InitGhostPrg ==
    [fn |-> "programmer_init", ret |-> "ESP_OK", out |-> NoRecord, ops |-> <<>>,
     warned |-> FALSE, valid |-> TRUE, fail |-> "none", calls |-> 0, stamped |-> <<>>,
     alters |-> 0, fresh |-> TRUE]

\* fail names the first storage operation of the call that failed
Observe(fn, r, valid, fail) ==
    g_prg' = [g_prg EXCEPT
                !.fn = fn, !.ret = r.ret, !.ops = r.ops, !.warned = r.warned,
                !.valid = valid, !.fail = fail,
                !.out = IF r.out = NoRecord THEN @ ELSE r.out,
                !.calls = @ + 1,
                !.stamped = IF r.prg.serial_counter # prg.serial_counter
                            THEN generate_serial(prg.mac_bytes, prg.serial_counter)
                            ELSE @,
                !.alters = IF r.prg.token # prg.token THEN 0 ELSE @]

\* the first operation to fail among those a call issues in this order
FirstFailure(channel, steps) ==
    IF channel > PROGRAMMER_MAX_CHANNEL THEN "channel"
    ELSE IF \E i \in 1 .. Len(steps) : steps[i][2] = "ESP_FAIL"
    THEN steps[CHOOSE i \in 1 .. Len(steps) :
                  /\ steps[i][2] = "ESP_FAIL"
                  /\ \A j \in 1 .. i - 1 : steps[j][2] # "ESP_FAIL"][1]
    ELSE "none"

WriteBlock ==
    /\ role = "block" /\ other = Alone
    /\ g_prg.calls < MaxPrgCalls
    /\ \E channel \in ChannelInputs, type \in TypeInputs, param1 \in Param1Inputs,
          name \in NameInputs, sel \in IoResults, wr \in WriteResults, rd \in IoResults :
          LET io == [sel |-> sel, wr |-> wr, rd |-> rd]
              r  == programmer_write_block(prg, channel, type, 0, param1, 0, name, io)
          IN  /\ prg' = r.prg
              /\ Observe("programmer_write_block", r, block_type_valid(type),
                         FirstFailure(channel, <<<<"select", sel>>, <<"write", wr>>,
                                                 <<"read", rd>>>>))
    /\ UNCHANGED notprg

ReadBlock ==
    /\ role = "block" /\ other = Alone
    /\ g_prg.calls < MaxPrgCalls
    /\ \E channel \in ChannelInputs, sel \in IoResults, rd \in IoResults :
          LET io == [sel |-> sel, rd |-> rd]
              r  == programmer_read_block(prg, channel, io)
          IN  /\ prg' = r.prg
              /\ Observe("programmer_read_block", r, TRUE,
                         FirstFailure(channel, <<<<"select", sel>>, <<"read", rd>>>>))
    /\ UNCHANGED notprg

EraseBlock ==
    /\ role = "block" /\ other = Alone
    /\ g_prg.calls < MaxPrgCalls
    /\ \E channel \in ChannelInputs, sel \in IoResults, er \in WriteResults, rd \in IoResults :
          LET io == [sel |-> sel, er |-> er, rd |-> rd]
              r  == programmer_erase_block(prg, channel, io)
          IN  /\ prg' = r.prg
              /\ Observe("programmer_erase_block", r, TRUE,
                         FirstFailure(channel, <<<<"select", sel>>, <<"erase", er>>,
                                                 <<"read", rd>>>>))
    /\ UNCHANGED notprg

LedTask ==
    /\ role = "block" /\ other = Alone
    /\ prg.current_state \in {"SUCCESS", "ERROR"}
    /\ prg' = led_task(prg)
    /\ g_prg' = [g_prg EXCEPT !.fn = "led_task"]
    /\ UNCHANGED notprg

\* byte i - 1 of a record, i in 1 .. 9, replaced by v
SetRaw(b, i, v) ==
    CASE i = 1 -> [b EXCEPT !.type = v]
      [] i = 2 -> [b EXCEPT !.subtype = v]
      [] i = 3 -> [b EXCEPT !.param1 = v]
      [] i = 4 -> [b EXCEPT !.param2 = v]
      [] i \in 5 .. 8 -> [b EXCEPT !.serial[i - 4] = v]
      [] i = 9 -> [b EXCEPT !.version = v]

RECURSIVE AlterBytes(_, _, _)
\* the bytes of b numbered in set, each changed by the pattern m
AlterBytes(b, set, m) ==
    IF set = {} THEN b
    ELSE LET i == CHOOSE x \in set : TRUE
         IN  AlterBytes(SetRaw(b, i, XorBits(Raw(b)[i], m, 8)), set \ {i}, m)

\* the token's data changes under the programmer: some of bytes 0 .. 8
AlterToken ==
    /\ role = "block" /\ other = Alone
    /\ prg.written # NoRecord /\ prg.token # ErasedRecord
    /\ g_prg.alters < MaxAlters
    /\ \E set \in AlterSets, m \in AlterMasks :
          prg' = [prg EXCEPT !.token = AlterBytes(@, set, m)]
    /\ g_prg' = [g_prg EXCEPT !.fn = "alter", !.alters = @ + 1]
    /\ UNCHANGED notprg

\* app_main of the block agent has run led_init, eeprom_init and
\* programmer_init; a programmer that has been up for long has stamped
\* UINT16 - 1 records since
InitProgrammer ==
    /\ role = "block" /\ other = Alone
    /\ InitBoardStatics
    /\ board_nvs_paired_mac = "none" /\ InitBoardBoot
    /\ token = [ch \in Channels |-> NoBlock]
    /\ InitRx /\ InitObservation /\ InitLoop /\ InitTask
    /\ InitBoot /\ nvs_paired_mac = "none"
    /\ EyesOff
    /\ \E mac \in MacInputs, n \in {0, UINT16 - 1} :
          /\ prg = [mac_bytes |-> mac, serial_counter |-> n, current_state |-> "IDLE",
                    flash_count |-> 0, token |-> ErasedRecord, written |-> NoRecord]
          /\ g_prg = [InitGhostPrg EXCEPT !.fresh = (n = 0)]

NextProgrammer ==
    \/ WriteBlock
    \/ ReadBlock
    \/ EraseBlock
    \/ LedTask
    \/ AlterToken

SpecProgrammer == InitProgrammer /\ [][NextProgrammer]_vars

----------------------------------------------------------------------------
(* Claims on the program transport (SpecTransport)                         *)

\* the step hands a program message to the callback
ProgramMsgStep == msg'.len >= 1 /\ IsProgramMsg(msg')

\* the sender's indices since the last ProgramStart are exactly 0 .. n-1
SentExactly(n) == \A i \in Slots : (g_sent[i] # NoBlock) <=> (i < n)

\* C1: ProgramStart{N}, 0 <= N <= 8, then exactly N BlockData with the distinct
\* indices 0..N-1 in any order, then ProgramEnd, all from one sender that passes
\* the address filter and with nothing else processed in between: the executor
\* is handed a program of length N whose slot i is the record sent with index
\* i, and exactly one ProgramAck{N} goes to the sender's address.
C1_TransportCompleteness ==
    [][ (/\ msg'.type = MSG_PROGRAM_END
         /\ PassesMacFilter(msg'.src)
         /\ rx_in_progress
         /\ g_clean
         /\ msg'.src = g_src
         /\ g_n <= ESPNOW_MAX_BLOCKS
         /\ SentExactly(g_n))
        => (/\ exec_count' = g_n
            /\ \A i \in Slots : i < g_n => exec_blocks'[i] = g_sent[i]
            /\ out' = <<ProgramAck(msg'.src, g_n)>>
            /\ program_ready_sem' = 1
            /\ ~rx_in_progress') ]_vars

\* a two-block program whose blocks were sent from the paired board has just
\* been accepted and acknowledged
C1_Witness ==
    /\ msg.type = MSG_PROGRAM_END /\ msg.src = "A"
    /\ has_paired_mac /\ paired_mac = "A" /\ ~pairing_active
    /\ g_clean /\ g_src = "A" /\ g_n = 2 /\ SentExactly(2)
    /\ g_sent[0] = BLOCK_BEGIN /\ g_sent[1] = BLOCK_FORWARD
    /\ exec_count = 2
    /\ exec_blocks[0] = BLOCK_BEGIN /\ exec_blocks[1] = BLOCK_FORWARD
    /\ out = <<ProgramAck("A", 2)>>
    /\ program_ready_sem = 1

\* min(count, ESPNOW_MAX_BLOCKS) of the most recent accepted ProgramStart
CappedN == IF g_n > ESPNOW_MAX_BLOCKS THEN ESPNOW_MAX_BLOCKS ELSE g_n

\* C2: when fewer BlockData messages than the capped count of the most recent
\* ProgramStart were processed before the ProgramEnd, that ProgramEnd sends no
\* ProgramAck, does not signal the executor, leaves the executor's buffer and
\* count alone, and returns the receiver to Idle.
C2_IncompleteDiscarded ==
    [][ (/\ msg'.type = MSG_PROGRAM_END
         /\ PassesMacFilter(msg'.src)
         /\ rx_in_progress
         /\ g_nblk < CappedN)
        => (/\ out' = <<>>
            /\ UNCHANGED <<program_ready_sem, exec_blocks, exec_count, peers>>
            /\ ~rx_in_progress') ]_vars

\* a transfer of two announced blocks ended after one BlockData, while the
\* executor still holds the program accepted before it
C2_Witness ==
    /\ msg.type = MSG_PROGRAM_END /\ msg.src = "A"
    /\ has_paired_mac /\ paired_mac = "A" /\ ~pairing_active
    /\ g_n = 2 /\ g_nblk = 1 /\ g_sent[0] = BLOCK_FORWARD
    /\ ~rx_in_progress
    /\ out = <<>>
    /\ exec_count = 1 /\ exec_blocks[0] = BLOCK_BEGIN

\* C3 (as claimed): every program handed to the executor has, in each slot
\* below its length, a record received in a BlockData since the most recent
\* ProgramStart; a transfer with a missing index is neither handed over nor
\* acknowledged.
C3_NoPartialExecution ==
    (msg.type = MSG_PROGRAM_END /\ out # <<>>)
        => \A i \in Slots :
              i < exec_count => (g_sent[i] # NoBlock /\ exec_blocks[i] = g_sent[i])

\* C4: while the robot is not in pairing mode, a program message from a source
\* that is not the paired peer, or arriving while there is no paired peer,
\* changes neither the receive state nor the executor handoff, and sends nothing.
C4_FilterOutsidePairing ==
    [][ (/\ ProgramMsgStep
         /\ ~pairing_active
         /\ (~has_paired_mac \/ msg'.src # paired_mac))
        => (UNCHANGED rxvars /\ UNCHANGED peers /\ out' = <<>>) ]_vars

\* a ProgramStart from another device arrived in the middle of a transfer from
\* the paired board and left it in progress
C4_Witness ==
    /\ msg.type = MSG_PROGRAM_START /\ msg.src = "B"
    /\ ~pairing_active /\ has_paired_mac /\ paired_mac = "A"
    /\ rx_in_progress /\ g_src = "A" /\ rx_expected = 2 /\ rx_count = 1

----------------------------------------------------------------------------
(* Claims on the robot's pairing state machine (SpecRobo)                  *)

\* the step hands a well-formed PairRequest to the callback
PairRequestStep == msg'.type = MSG_PAIR_REQUEST /\ msg'.len >= SIZEOF_PAIR_REQUEST

\* the step ends the pairing cycle
CycleEnds == pairing_active /\ ~pairing_active'

\* C6 (as claimed): a well-formed PairRequest{addr} processed in Pairing is
\* answered by exactly one PairAck carrying the robot's address, sent to addr,
\* and addr is the peer the robot holds and has persisted when that pairing
\* cycle ends, whatever else is received before the main loop ends the cycle.
C6_RequesterBecomesPeer ==
    [][ /\ (PairRequestStep /\ pairing_active)
           => out' = <<PairAck(msg'.mac, MY_MAC)>>
        /\ CycleEnds
           => \A a \in g_acked : /\ has_paired_mac'
                                 /\ paired_mac' = a
                                 /\ nvs_paired_mac' = a ]_vars

\* C7: a PairRequest processed while the robot is not in Pairing sends no
\* PairAck, registers no peer, and leaves the volatile identity, the persisted
\* record, the pairing flags and the program receive state unchanged.
C7_PairRequestIgnoredOutsidePairing ==
    [][ (msg'.type = MSG_PAIR_REQUEST /\ ~pairing_active)
        => (out' = <<>> /\ UNCHANGED <<statevars, rxvars>>) ]_vars

\* a PairRequest from another board reached a robot paired to "A", outside
\* pairing mode, in the middle of a program transfer
C7_Witness ==
    /\ msg.type = MSG_PAIR_REQUEST /\ msg.mac = "B"
    /\ ~pairing_active /\ ~pairing_success
    /\ has_paired_mac /\ paired_mac = "A" /\ nvs_paired_mac = "A"
    /\ rx_in_progress
    /\ peers = {} /\ out = <<>>

\* C8 (as claimed): entering Pairing while Paired, the robot sends exactly one
\* Unpair to the old peer's address, then clears the volatile identity and the
\* persisted record, and accepts no PairRequest (and sends no PairAck) before
\* that is done.
C8_UnpairBeforeHandshake ==
    [][ /\ (main_pc = "unpair_send" /\ main_pc' # "unpair_send" /\ g_old # "none")
           => out' = <<Unpair(g_old)>>
        /\ (/\ msg'.type = MSG_PAIR_REQUEST
            /\ g_old # "none"
            /\ main_pc \in {"unpair_send", "unpair_clear"})
           => (out' = <<>> /\ UNCHANGED <<paired_mac, has_paired_mac, pairing_success>>) ]_vars

\* C9 (as claimed): a pairing cycle in which no handshake message was accepted
\* ends only by the 30 s timeout, and leaves the robot Unpaired: no volatile
\* peer and no persisted identity record.
C9_TimeoutEndsUnpaired ==
    [][ (CycleEnds /\ ~g_accepted)
        => (/\ elapsed_ms >= PAIR_TIMEOUT_MS
            /\ ~has_paired_mac'
            /\ nvs_paired_mac' = "none") ]_vars

\* C10 (as claimed): one long press makes the robot enter Pairing once; an
\* entry made while the button is released is the first one since the button
\* was last pressed (no automatic retry after the cycle has ended).
C10_OneEntryPerLongPress ==
    [][ (~pairing_active /\ pairing_active' /\ ~button_down)
        => g_entries = 0 ]_vars

----------------------------------------------------------------------------
(* Claims on both devices (SpecDevices)                                    *)

\* C11: an Unpair whose source is the device's current peer clears the volatile
\* identity and erases the persisted record (the board also reverts its target
\* address to broadcast), in Pairing and outside; an Unpair from any other
\* address, or received while the device has no peer, changes nothing.
C11_UnpairFromPeerOnly ==
    [][ /\ (msg'.type = MSG_UNPAIR /\ role = "robo")
           => IF has_paired_mac /\ msg'.src = paired_mac
              THEN /\ ~has_paired_mac' /\ paired_mac' = ZERO_MAC
                   /\ nvs_paired_mac' = "none"
              ELSE UNCHANGED <<statevars, rxvars>> /\ out' = <<>>
        /\ (msg'.type = MSG_UNPAIR /\ role = "board")
           => IF board_has_paired_mac /\ msg'.src = target_mac
              THEN /\ ~board_has_paired_mac' /\ target_mac' = ESPNOW_BROADCAST_MAC
                   /\ board_nvs_paired_mac' = "none"
              ELSE UNCHANGED <<boardstate, boardeeprom>> /\ out' = <<>> ]_vars

\* a board that acquired the peer "R" in the current pairing cycle, having
\* entered it without a peer, has just been unpaired by "R" while in Pairing
C11_Witness ==
    /\ role = "board"
    /\ msg.type = MSG_UNPAIR /\ msg.src = "R"
    /\ board_pairing_active /\ board_pairing_success
    /\ ~board_has_paired_mac /\ target_mac = ESPNOW_BROADCAST_MAC
    /\ board_nvs_paired_mac = "none"

\* C12 (as claimed): whenever a device is not in Pairing, its persisted
\* paired-identity record exists if and only if the volatile has-a-peer flag is
\* set, and when it exists it equals the volatile peer address.
C12_PersistedMatchesRuntime ==
    /\ (role = "robo" /\ ~pairing_active)
       => /\ (nvs_paired_mac # "none") <=> has_paired_mac
          /\ (nvs_paired_mac # "none") => nvs_paired_mac = paired_mac
    /\ (role = "board" /\ ~board_pairing_active)
       => /\ (board_nvs_paired_mac # "none") <=> board_has_paired_mac
          /\ (board_nvs_paired_mac # "none") => board_nvs_paired_mac = target_mac

----------------------------------------------------------------------------
(* Claims on the board's button (SpecBoardButton)                          *)

\* C13 (as claimed): on the board, a press released after less than 4 s raises
\* a send request and never a pairing request, and a press held at least 4 s
\* raises a pairing request and never a send request: the release edge raises
\* the request that corresponds to the time the press was held, a pairing
\* request is only ever raised for a press held at least 4 s, and a send
\* request only for a press held less than 4 s.
C13_ShortSendsLongPairs ==
    [][ /\ (board_button_down /\ ~board_button_down')
           => IF IsLongPress(board_held_isr)
              THEN board_pairing_requested' /\ UNCHANGED send_requested
              ELSE send_requested' /\ UNCHANGED board_pairing_requested
        /\ (/\ ~board_pairing_requested
            /\ (board_pairing_requested' \/ (~board_pairing_active /\ board_pairing_active')))
           => IsLongPress(board_held_isr)
        /\ (~send_requested /\ send_requested')
           => ~IsLongPress(board_held_isr) ]_vars

----------------------------------------------------------------------------
(* Executor: steps of a run as the claims see them                         *)

\* the step runs one pass of the dispatch loop / returns from an invocation
DispatchStep == task_pc = "run" /\ stack' # stack /\ disp' # NoDispatch
ReturnStep   == task_pc = "run" /\ stack' # stack /\ disp' = NoDispatch

MoveFn(t) ==
    IF t = BLOCK_FORWARD THEN "forward"
    ELSE IF t = BLOCK_BACKWARD THEN "backward"
    ELSE IF t = BLOCK_TURN_RIGHT THEN "turn_right"
    ELSE "turn_left"

RECURSIVE CountCalls(_, _)
CountCalls(cs, c) ==
    IF cs = <<>> THEN 0
    ELSE (IF Head(cs) = c THEN 1 ELSE 0) + CountCalls(Tail(cs), c)

\* the movement at the program counter is followed, within the range, by one
\* of the given parameter blocks
ParamFollows(params) ==
    /\ Top.pc + 1 < Top.count
    /\ BlockAt(Top, Top.pc + 1) \in params

\* the dispatched movement was performed n times and the invocation goes on
\* with the block k positions further
MovedAndAdvanced(n, k) ==
    /\ CountCalls(cmds', Motor(MoveFn(BlockAt(Top, Top.pc)))) = n
    /\ CountCalls(cmds', Motor("stop")) = n
    /\ stack'[Len(stack)].pc = Top.pc + k

\* C14 as stated: a movement block followed by Param2, Param3 or Param4 is
\* performed 2, 3 or 4 times and the block after the parameter comes next;
\* in every other case it is performed once and the block at p+1 comes next.
C14_ParamOrOnceUnconsumed ==
    [][ (DispatchStep /\ BlockAt(Top, Top.pc) \in MovementBlocks)
        => IF ParamFollows({BLOCK_PARAM_2, BLOCK_PARAM_3, BLOCK_PARAM_4})
           THEN MovedAndAdvanced(BlockAt(Top, Top.pc + 1) - BLOCK_PARAM_2 + 2, 2)
           ELSE MovedAndAdvanced(1, 1) ]_vars

\* C14 amended: as above, except that a ParamForever block at p+1 is consumed
\* too: the movement is then performed once, for FOREVER_MOVE_MS, and the
\* block at p+2 comes next.
C14_ParamLookahead ==
    [][ (DispatchStep /\ BlockAt(Top, Top.pc) \in MovementBlocks)
        => IF ParamFollows({BLOCK_PARAM_2, BLOCK_PARAM_3, BLOCK_PARAM_4})
           THEN MovedAndAdvanced(BlockAt(Top, Top.pc + 1) - BLOCK_PARAM_2 + 2, 2)
           ELSE IF ParamFollows({BLOCK_PARAM_FOREVER})
           THEN /\ MovedAndAdvanced(1, 2)
                /\ CountCalls(cmds', Delay(FOREVER_MOVE_MS)) = 1
           ELSE /\ MovedAndAdvanced(1, 1)
                /\ CountCalls(cmds', Delay(DEFAULT_MOVE_MS)) = 1 ]_vars

\* Forward, Param3, Beep: Forward was performed three times and Beep is next
C14_Witness ==
    /\ task_pc = "run" /\ Len(stack) = 1 /\ disp # NoDispatch
    /\ Len(g_run_prog) > disp + 2
    /\ g_run_prog[disp + 1] = BLOCK_FORWARD
    /\ g_run_prog[disp + 2] = BLOCK_PARAM_3
    /\ CountCalls(cmds, Motor("forward")) = 3
    /\ Top.pc = disp + 2
    /\ BlockAt(Top, Top.pc) = BLOCK_BEEP

\* Repeat blocks minus EndRepeat blocks among p[i .. j]
Balance(p, i, j) ==
    Cardinality({k \in i .. j : p[k] = BLOCK_REPEAT})
    - Cardinality({k \in i .. j : p[k] = BLOCK_END_REPEAT})

\* every EndRepeat closes a Repeat and every Repeat is closed
ProperlyNested(p) ==
    /\ \A j \in 1 .. Len(p) : Balance(p, 1, j) >= 0
    /\ Balance(p, 1, Len(p)) = 0

\* the EndRepeat that closes the Repeat p[i] in the nesting structure
Closer(p, i) ==
    CHOOSE j \in (i + 1) .. Len(p) :
        /\ Balance(p, i, j) = 0
        /\ \A k \in i .. (j - 1) : Balance(p, i, k) > 0

\* index in exec_blocks of the end_pc the dispatched Repeat has settled on
ScannedEnd ==
    Top.base + (IF Len(stack') > Len(stack)
                THEN stack'[Len(stack)].end_pc
                ELSE stack'[Len(stack)].pc - 1)

\* C15: in a run of a program whose Repeat/EndRepeat blocks are properly
\* nested, every Repeat the executor dispatches, in the program's range or in
\* the range of a repeat body, with or without a parameter block after it,
\* settles on the EndRepeat that closes it in the nesting structure.
C15_RepeatMatchesItsEndRepeat ==
    [][ (/\ DispatchStep
         /\ BlockAt(Top, Top.pc) = BLOCK_REPEAT
         /\ ProperlyNested(g_run_prog))
        => ScannedEnd + 1 = Closer(g_run_prog, disp' + 1) ]_vars

\* Repeat, Forward, Repeat, Beep, EndRepeat, EndRepeat: the inner Repeat has
\* just been dispatched in the body of the outer one
C15_Witness ==
    /\ g_run_prog = NestExample
    /\ disp = 2
    /\ Len(stack) = 3
    /\ stack[1].end_pc = 5
    /\ stack[2].base + stack[2].end_pc = 4

\* C16: once a run has executed an End block, the run dispatches no further
\* block and makes no further actuator call: the End cleanup is the last
\* thing the run does, wherever the End block is, a Repeat body included.
C16_EndEndsTheRun ==
    [][ g_ended => ~DispatchStep /\ ~(ReturnStep /\ cmds' # <<>>) ]_vars

\* the last n actuator calls of a step
LastCalls(cs, n) == IF Len(cs) < n THEN cs ELSE SubSeq(cs, Len(cs) - n + 1, Len(cs))

\* C17: a step in which an executor_run invocation returns, through End or by
\* falling off the end of its range, ends with the calls motor stop,
\* expression NORMAL and look direction CENTER; and the motors are stopped in
\* every state in which the executor task waits for a program.
C17_ReturnsStoppedAndNeutral ==
    /\ [](task_pc = "wait" => motor = "stop")
    /\ [][ (ReturnStep \/ (DispatchStep /\ BlockAt(Top, Top.pc) = BLOCK_END))
           => /\ LastCalls(cmds', 3) =
                    <<Motor("stop"), Expression("NORMAL"), Look("CENTER")>>
              /\ motor' = "stop" ]_vars

\* a run that moved the robot and returned through End; the task waits again
C17_Witness ==
    /\ task_pc = "wait" /\ g_ended
    /\ Len(g_run_prog) = 2
    /\ g_run_prog[1] = BLOCK_FORWARD /\ g_run_prog[2] = BLOCK_END
    /\ motor = "stop"
    /\ cmds = <<Motor("stop"), Expression("NORMAL"), Look("CENTER")>>

\* the caller of the innermost invocation, before and after a step in which
\* that invocation returns
Caller     == stack[Len(stack) - 1]
CallerNext == stack'[Len(stack) - 1]

\* C18: every run terminates.  Each pass of the dispatch loop leaves its
\* invocation with a larger program counter, returns, or enters a repeat body
\* shorter than its own range with a repeat count between 1 and
\* FOREVER_ITERATIONS; each return lets the caller count one iteration or leave
\* the repeat with a larger program counter; and a task that runs a program
\* comes back to waiting for the next one.
C18_RunTerminates ==
    /\ [][ /\ (DispatchStep /\ BlockAt(Top, Top.pc) # BLOCK_END)
              => \/ /\ Len(stack') = Len(stack)
                    /\ stack'[Len(stack)].pc > Top.pc
                 \/ /\ Len(stack') = Len(stack) + 1
                    /\ stack'[Len(stack)].pc >= Top.pc
                    /\ stack'[Len(stack)].iterations \in 1 .. FOREVER_ITERATIONS
                    /\ stack'[Len(stack)].r = 0
                    /\ stack'[Len(stack')].count < Top.count
                    /\ stack'[Len(stack')].pc = 0
           /\ (/\ ReturnStep \/ (DispatchStep /\ BlockAt(Top, Top.pc) = BLOCK_END)
               /\ Len(stack) > 1)
              => \/ /\ Len(stack') = Len(stack)
                    /\ CallerNext.r = Caller.r + 1
                    /\ CallerNext.r < Caller.iterations
                    /\ CallerNext.pc = Caller.pc
                 \/ /\ Len(stack') = Len(stack) - 1
                    /\ CallerNext.pc > Caller.pc ]_vars
    /\ (task_pc = "run") ~> (task_pc = "wait")

\* Repeat, ParamForever, Forward, ParamForever has run to its end
C18_Witness ==
    /\ task_pc = "wait" /\ g_credit = 0
    /\ g_run_prog = <<BLOCK_REPEAT, BLOCK_PARAM_FOREVER, BLOCK_FORWARD, BLOCK_PARAM_FOREVER>>
    /\ LastCalls(cmds, 1) = <<Look("CENTER")>>

\* C19: while a run is in progress no second run starts, the run keeps the
\* count it was started with, and every block it dispatches is the block the
\* program had at that index when the run started: a program the callback
\* accepts during the run changes nothing the run interprets.
C19_RunOwnsItsProgram ==
    [][ task_pc = "run"
        => /\ (task_pc' = "run" => /\ g_run_prog' = g_run_prog
                                   /\ stack'[1].count = Len(g_run_prog))
           /\ DispatchStep => /\ disp' < Len(g_run_prog)
                              /\ exec_blocks[disp'] = g_run_prog[disp' + 1] ]_vars

\* the state right after executor_run was called on the most recently
\* accepted program
RunStarted ==
    /\ task_pc = "run"
    /\ stack = <<Frame(0, Len(g_acc_prog))>>
    /\ g_run_prog = g_acc_prog

\* C20: the handoff is a single slot.  The semaphore never holds more than
\* one signal however many programs are accepted, and holds one after each
\* accepted program; a run, when it starts, takes the most recently accepted
\* program; a pending signal is followed by the start of a run of the most
\* recently accepted program; and there are never more runs than accepted
\* programs.
C20_SingleSlotHandoff ==
    /\ [](/\ program_ready_sem \in {0, 1}
          /\ g_credit >= 0
          /\ program_ready_sem = 1 => g_credit >= 1)
    /\ [][ /\ g_credit' > g_credit => program_ready_sem' = 1
           /\ (task_pc = "call" /\ task_pc' = "run")
              => /\ g_run_prog' = g_acc_prog
                 /\ stack' = <<Frame(0, Len(g_acc_prog))>> ]_vars
    /\ (program_ready_sem = 1) ~> RunStarted

\* two programs were accepted before the task took the signal; the run that
\* has just started is the only one they lead to and has the later program
C20_Witness ==
    /\ RunStarted
    /\ program_ready_sem = 0
    /\ g_credit = 1
    /\ g_acc_prog = <<BLOCK_FORWARD, BLOCK_BEEP>>

----------------------------------------------------------------------------
(* Claims on the expression animator (SpecEyesIdle)                        *)

Asleep == eyes.s_is_sleeping

\* sixty seconds of ticks have passed since eyes_init or the last
\* eyes_set_expression
QuietForTimeout == g_eyes.idle_ms >= EYES_IDLE_TIMEOUT_MS

SleepingTarget(e) == TargetOf(s_keyframes(e.pupil)["SLEEPING"], s_look_offsets["CENTER"])

\* C21: the animator is asleep exactly when at least sixty seconds of ticks
\* have passed without an eyes_set_expression call; the tick that reaches the
\* timeout sets the sleeping flag, makes SLEEPING the expression and its
\* keyframe the target and starts a 500 ms transition, and no later tick does
\* so again while the animator stays asleep; eyes_set_expression clears the
\* flag and sets the idle timer to 0, so that the whole timeout must pass again
C21_SleepsAfterIdleTimeoutOnce ==
    /\ [](Asleep <=> QuietForTimeout)
    /\ [](Asleep => eyes.s_expr = "SLEEPING" /\ g_eyes.naps = 1)
    /\ [](~Asleep => g_eyes.naps = 0 /\ eyes.s_idle_timer = g_eyes.idle_ms)
    /\ [][(~Asleep /\ Asleep')
            => /\ g_eyes'.last = "eyes_tick"
               /\ eyes'.s_expr = "SLEEPING"
               /\ eyes'.s_target = SleepingTarget(eyes)
               /\ eyes'.s_transition_remaining = SLEEP_TRANSITION_MS - FRAME_MS]_vars
    /\ [][(Asleep /\ Asleep' /\ g_eyes'.last = "eyes_tick")
            => eyes'.s_transition_remaining
                 = IF eyes.s_transition_remaining > FRAME_MS
                   THEN eyes.s_transition_remaining - FRAME_MS ELSE 0]_vars
    /\ [][(g_eyes'.last = "eyes_set_expression" /\ g_eyes'.calls = g_eyes.calls + 1)
            => ~Asleep' /\ eyes'.s_idle_timer = 0]_vars

\* the animator fell asleep, was woken by eyes_set_expression and, a full
\* timeout of ticks later, is asleep again
C21_Witness ==
    /\ g_eyes.woken
    /\ Asleep
    /\ g_eyes.naps = 1
    /\ g_eyes.last = "eyes_tick"


----------------------------------------------------------------------------
(* Claims on the expression animator around its calls (SpecEyes)           *)

\* the interpolated fields other than the blink closure
ShapeFields == AnimFieldSet \ {"blink_lid"}

\* ticks that make up the transition window
WindowTicks == (TRANSITION_MS + FRAME_MS - 1) \div FRAME_MS

\* x lies between a and b
Between(a, x, b) == (a <= x /\ x <= b) \/ (b <= x /\ x <= a)

TickStep == g_eyes'.last = "eyes_tick"

\* C22: after eyes_set_expression or eyes_set_look_direction, on every tick
\* each interpolated field of s_current stays between its old value and the
\* target the call set (it moves toward the target, never past it, and its
\* distance to the target does not grow), and WindowTicks (8) ticks after the
\* call every field equals that target; the blink closure, which advance_blink
\* drives on top of the interpolation, is left out of both parts
C22_ConvergesWithinWindow ==
    /\ [][(g_eyes.targeted /\ TickStep)
            => \A f \in ShapeFields :
                  Between(eyes.s_current[f], eyes'.s_current[f], g_eyes.goal[f])]_vars
    /\ [](g_eyes.targeted /\ g_eyes.since >= WindowTicks
            => \A f \in ShapeFields : eyes.s_current[f] = g_eyes.goal[f])

----------------------------------------------------------------------------
(* Claims on the animator under interleaving (SpecEyesRace)                *)

\* every call has returned and eyes_task is between two frames
Quiescent == eyes_call = NoCall /\ eyes_pc = FramePc

\* s_target is the keyframe of the one expression expr with one look
\* direction: the one asked for, if the last call to return asked for one
OneKeyframe(expr) ==
    \E l \in LookDirs :
       /\ eyes.s_target = TargetOf(s_keyframes(eyes.pupil)[expr], s_look_offsets[l])
       /\ g_eyes.by = "eyes_set_look_direction" => l = g_eyes.look

\* C23: whatever the interleaving of eyes_tick with eyes_set_expression and
\* eyes_set_look_direction calls of another task, once the calls have returned
\* s_target is the keyframe of one expression and one look direction, those of
\* the last call to return: no mix of the fields of two keyframes, and the
\* SLEEPING keyframe only if the idle timeout (sixty seconds of ticks since
\* the last eyes_set_expression returned) has passed; and WindowTicks ticks
\* after the last call returned s_current has reached s_target
C23_TargetNeverCorrupted ==
    /\ (Quiescent /\ g_eyes.targeted)
          => \/ OneKeyframe(g_eyes.expr)
             \/ QuietForTimeout /\ OneKeyframe("SLEEPING")
    /\ (Quiescent /\ g_eyes.targeted /\ g_eyes.since >= WindowTicks /\ ~QuietForTimeout)
          => \A f \in ShapeFields : eyes.s_current[f] = eyes.s_target[f]

----------------------------------------------------------------------------
(* Claims on the block programmer (SpecProgrammer)                         *)

\* the step is a call of fn that has returned
CallStep(fn) == g_prg'.fn = fn /\ g_prg'.calls = g_prg.calls + 1

\* r[1] ^ r[2] ^ ... ^ r[9]
Xor9(r) ==
    XorBits(r[1], XorBits(r[2], XorBits(r[3], XorBits(r[4], XorBits(r[5],
        XorBits(r[6], XorBits(r[7], XorBits(r[8], r[9], 8), 8), 8), 8), 8), 8), 8), 8)

\* the bytes 0 .. 8 in which the token differs from the record encoded for it
AlteredBytes == {i \in 1 .. 9 : Raw(prg.token)[i] # Raw(prg.written)[i]}

\* the token holds an encoded record whose checksum byte is as encoded
ReadsEncoded ==
    /\ prg.written # NoRecord
    /\ prg.token # ErasedRecord
    /\ prg.token.checksum = prg.written.checksum

WrittenChecksumIsXor ==
    (CallStep("programmer_write_block") /\ g_prg'.ret = "ESP_OK")
        => /\ g_prg'.out.checksum = Xor9(Raw(g_prg'.out))
           /\ prg'.token = g_prg'.out

\* C24 as stated: a written record carries the XOR of its bytes 0 .. 8 as
\* checksum, and a read of a token whose checksum byte is as encoded flags a
\* mismatch exactly if at least one of bytes 0 .. 8 differs from the encoded
\* record
C24_MismatchIffAnyByteAltered ==
    /\ [][WrittenChecksumIsXor]_vars
    /\ [][(CallStep("programmer_read_block") /\ g_prg'.ret = "ESP_OK" /\ ReadsEncoded)
            => (g_prg'.warned <=> AlteredBytes # {})]_vars

\* C24, amended: a written record carries the XOR of its bytes 0 .. 8 as
\* checksum, and a read of a token whose checksum byte is as encoded flags a
\* mismatch exactly if the XOR of bytes 0 .. 8 differs from that of the encoded
\* record: always when one byte differs, not when the differences of several
\* bytes cancel
C24_MismatchIffXorDiffers ==
    /\ [][WrittenChecksumIsXor]_vars
    /\ [][(CallStep("programmer_read_block") /\ g_prg'.ret = "ESP_OK" /\ ReadsEncoded)
            => /\ g_prg'.warned <=> Xor9(Raw(prg.token)) # Xor9(Raw(prg.written))
               /\ Cardinality(AlteredBytes) = 1 => g_prg'.warned
               /\ AlteredBytes = {} => ~g_prg'.warned]_vars

\* a token with one altered byte has been read and flagged
C24_Witness ==
    /\ g_prg.fn = "programmer_read_block"
    /\ g_prg.ret = "ESP_OK"
    /\ ReadsEncoded
    /\ Cardinality(AlteredBytes) = 1
    /\ g_prg.warned

\* the 16-bit counter in a serial
CounterOf(serial) == serial[3] * 256 + serial[4]

\* the call passed block_type_valid and select_channel
Stamps == g_prg'.valid /\ g_prg'.fail \notin {"channel", "select"}

\* C25: the first serial stamped after programmer_init carries counter 0; a
\* programmer_write_block call that passes the type and channel checks stamps
\* the two MAC bytes followed by the counter, high byte first, and adds one to
\* the counter modulo 65536 whether the EEPROM write succeeds or not; no other
\* step changes the counter, so consecutive serials have the same prefix and
\* counters that follow each other modulo 65536
C25_SerialPrefixAndCounter ==
    /\ [][(CallStep("programmer_write_block") /\ Stamps)
            => /\ g_prg'.stamped = <<prg.mac_bytes[1], prg.mac_bytes[2],
                                     prg.serial_counter \div 256, prg.serial_counter % 256>>
               /\ prg'.serial_counter = (prg.serial_counter + 1) % 65536
               /\ g_prg'.ret = "ESP_OK" => g_prg'.out.serial = g_prg'.stamped
               /\ g_prg.stamped # <<>>
                    => /\ CounterOf(g_prg'.stamped) = (CounterOf(g_prg.stamped) + 1) % 65536
                       /\ g_prg'.stamped[1] = g_prg.stamped[1]
                       /\ g_prg'.stamped[2] = g_prg.stamped[2]
               /\ (g_prg.fresh /\ g_prg.stamped = <<>>) => CounterOf(g_prg'.stamped) = 0]_vars
    /\ [][~(CallStep("programmer_write_block") /\ Stamps)
            => /\ prg'.serial_counter = prg.serial_counter
               /\ prg'.mac_bytes = prg.mac_bytes
               /\ g_prg'.stamped = g_prg.stamped]_vars

\* the counter has wrapped to 0 and that serial went into a write that failed
C25_Witness ==
    /\ ~g_prg.fresh
    /\ g_prg.fn = "programmer_write_block"
    /\ g_prg.valid /\ g_prg.fail = "write"
    /\ g_prg.stamped # <<>>
    /\ CounterOf(g_prg.stamped) = 0
    /\ prg.serial_counter = 1

\* C26: programmer_write_block with a type outside the catalog returns
\* ESP_ERR_INVALID_ARG and has no effect: no storage operation is issued, and
\* the serial counter, the LED state, the token and the caller's record are
\* as before
C26_InvalidTypeNoEffect ==
    [][(CallStep("programmer_write_block") /\ ~g_prg'.valid)
         => /\ g_prg'.ret = "ESP_ERR_INVALID_ARG"
            /\ g_prg'.ops = <<>>
            /\ prg' = prg
            /\ g_prg'.out = g_prg.out
            /\ g_prg'.stamped = g_prg.stamped]_vars

\* a write with an unknown type right after a successful one: the LED still
\* shows SUCCESS and the caller's record is the one written before
C26_Witness ==
    /\ g_prg.fn = "programmer_write_block"
    /\ ~g_prg.valid
    /\ prg.current_state = "SUCCESS"
    /\ g_prg.out = prg.token
    /\ prg.serial_counter = 1

\* C27: when a channel select, write, read or erase fails in
\* programmer_write_block, programmer_read_block or programmer_erase_block,
\* no later storage operation is issued, the call returns an error and the
\* LED state is ERROR; a failed write leaves the caller's record as it was
C27_FailureStopsAndShowsError ==
    [][(g_prg'.calls = g_prg.calls + 1 /\ g_prg'.valid
                                        /\ g_prg'.fail \notin {"none", "channel"})
         => /\ g_prg'.ret # "ESP_OK"
            /\ g_prg'.ops[Len(g_prg'.ops)] = g_prg'.fail
            /\ prg'.current_state = "ERROR"
            /\ g_prg'.fn = "programmer_write_block" => g_prg'.out = g_prg.out]_vars

----------------------------------------------------------------------------
(* Claims on frames of a wrong length (SpecLengths)                        *)

\* the callback was handed a frame in this step
Received == msg' # NoMsg

WrongLength(m) == m.len # DefinedLength(m.type)

\* pairing, transport, persistence and executor state of both devices
DeviceState == <<statevars, rxvars, boardstate, taskvars>>

\* C28: a received frame whose length is not the length defined for its
\* discriminant, shorter or longer, is dropped on the robot and on the
\* board: pairing, transport, persistence and executor state stay as they
\* are and nothing is sent in reply
C28_WrongLengthDropped ==
    [][(Received /\ WrongLength(msg'))
         => (UNCHANGED DeviceState /\ out' = <<>>)]_vars

\* the part of C28 the callbacks do implement: a frame shorter than its
\* struct is dropped on either device
ShortFramesDropped ==
    [][(Received /\ msg'.len < DefinedLength(msg'.type))
         => (UNCHANGED DeviceState /\ out' = <<>>)]_vars

----------------------------------------------------------------------------
(* Claims on the start of a transfer (SpecTransport)                       *)

\* the callback accepts a ProgramStart in this step: it passes the address
\* filter and carries its count
AcceptedStart ==
    /\ Received /\ msg'.type = MSG_PROGRAM_START
    /\ PassesMacFilter(msg'.src)
    /\ msg'.len >= SIZEOF_PROGRAM_START

\* C30: after the robot processes an accepted ProgramStart{count}, from Idle
\* or from Receiving, the phase is Receiving, the expected count is
\* min(count, 8) and the received counter is 0: no BlockData processed before
\* this ProgramStart counts towards the completeness check of the new transfer
C30_StartResetsTransfer ==
    [][AcceptedStart
         => /\ rx_in_progress'
            /\ rx_expected' = (IF msg'.block_count < 8 THEN msg'.block_count ELSE 8)
            /\ rx_count' = 0
            /\ g_nblk' = 0
            /\ (rx_expected' > 0 => ~ProgramComplete')]_vars

\* a ProgramStart has just interrupted a transfer that had stored both of
\* its records, and announced a program of two
C30_Witness ==
    /\ msg.type = MSG_PROGRAM_START /\ msg.block_count = 2
    /\ rx_in_progress /\ rx_expected = 2 /\ rx_count = 0
    /\ rx_blocks[0] # ZeroBlock /\ rx_blocks[1] # ZeroBlock

----------------------------------------------------------------------------
(* Claims on a transfer from the board to the robot (SpecLinkFair)          *)

\* board and robot are paired to each other
PairedToEachOther ==
    /\ board_has_paired_mac /\ target_mac = MY_MAC
    /\ has_paired_mac /\ paired_mac = BOARD_MAC

\* two present, validly read tokens holding Begin and Forward
BeginForwardRead ==
    /\ \A ch \in Channels : eeprom_present[ch] /\ data_valid[ch]
    /\ eeprom_data = [ch \in Channels |-> IF ch = 0 THEN BLOCK_BEGIN ELSE BLOCK_FORWARD]

\* the main loop of the board is about to act on a send request
SendRequest ==
    /\ board_pc = "check" /\ send_requested /\ ~board_pairing_active
    /\ ~pairing_active
    /\ PairedToEachOther /\ BeginForwardRead

\* the payload handed to esp_now_send by the last step
Emitted(m) == out = <<m>>

\* the calls made by the last step of the executor
Issued(cs) == task_pc # "wait" /\ cmds = cs

Finished(cs) == task_pc = "wait" /\ cmds = cs

RECURSIVE MotorCalls(_)
MotorCalls(cs) ==
    IF cs = <<>> THEN <<>>
    ELSE (IF Head(cs).op = "motor" THEN <<Head(cs).arg>> ELSE <<>>) \o MotorCalls(Tail(cs))

ForwardOnce ==
    <<Expression("FOCUSED"), Look("UP"),
      Motor("forward"), Delay(DEFAULT_MOVE_MS), Motor("stop")>>

StopAndNormal == <<Motor("stop"), Expression("NORMAL"), Look("CENTER")>>

\* with both tokens read, the board's payloads follow each other as
\* ProgramStart{2}, BlockData{0, Begin}, BlockData{1, Forward}, ProgramEnd
EmitsInOrder ==
    [][(PairedToEachOther /\ BeginForwardRead
          /\ out' # <<>> /\ IsProgramMsg(Head(out')))
         => out' = <<IF ~rx_in_progress THEN ProgramStart(MY_MAC, 2)
                     ELSE IF g_nblk = 0 THEN BlockData(MY_MAC, 0, BLOCK_BEGIN)
                     ELSE IF g_nblk = 1 THEN BlockData(MY_MAC, 1, BLOCK_FORWARD)
                     ELSE ProgramEnd(MY_MAC)>>]_vars

\* running that program, the executor drives forward once, stops, and stops
\* again when it returns
MotorInOrder ==
    [][(g_run_prog' = <<BLOCK_BEGIN, BLOCK_FORWARD>> /\ cmds' # cmds /\ cmds' # <<>>)
         => MotorCalls(cmds') =
                (IF disp' = 0 THEN <<>>
                 ELSE IF disp' = 1 THEN <<"forward", "stop">>
                 ELSE <<"stop">>)]_vars

\* C29: with board and robot paired to each other and two present, validly
\* read tokens holding Begin and Forward, a send request makes the board emit
\* ProgramStart{2}, BlockData{0, Begin}, BlockData{1, Forward}, ProgramEnd in
\* that order; the robot then sends ProgramAck{2} and the executor issues, in
\* order, expression FOCUSED, one forward drive followed by motor stop, and
\* finally motor stop with expression NORMAL, and no other motor command
C29_EndToEnd ==
    /\ [](SendRequest =>
          <>(Emitted(ProgramStart(MY_MAC, 2)) /\
          <>(Emitted(BlockData(MY_MAC, 0, BLOCK_BEGIN)) /\
          <>(Emitted(BlockData(MY_MAC, 1, BLOCK_FORWARD)) /\
          <>(Emitted(ProgramEnd(MY_MAC)) /\
          <>(Emitted(ProgramAck(BOARD_MAC, 2)) /\
          <>(Issued(<<Expression("FOCUSED")>>) /\
          <>(Issued(ForwardOnce) /\
          <>(Finished(StopAndNormal) /\ motor = "stop")))))))))
    /\ EmitsInOrder
    /\ MotorInOrder

\* the run of the transferred program has just returned
C29_Witness ==
    /\ Finished(StopAndNormal) /\ motor = "stop"
    /\ g_run_prog = <<BLOCK_BEGIN, BLOCK_FORWARD>>
    /\ g_acc_prog = <<BLOCK_BEGIN, BLOCK_FORWARD>>
    /\ msg = ProgramAckMsg(MY_MAC, 2, SIZEOF_PROGRAM_ACK)
    /\ PairedToEachOther

----------------------------------------------------------------------------
(* Claims on the records of a transfer (SpecTransport)                     *)

\* the callback is handed a BlockData in this step
BlockDataStep == Received /\ msg'.type = MSG_BLOCK_DATA

\* ... and the frame reaches case MSG_BLOCK_DATA whole
BlockDataProcessed ==
    /\ BlockDataStep
    /\ PassesMacFilter(msg'.src)
    /\ msg'.len >= SIZEOF_BLOCK_MSG

\* C31: a BlockData{index, record} changes robot state only if the receiver
\* is in Receiving and index < 8; then it overwrites slot index with the
\* record and increments the received counter by exactly one, also when that
\* index was already received in this transfer; in every other case the slots
\* and the counter are unchanged
C31_BlockDataStoresAndCounts ==
    [][BlockDataStep =>
         /\ (BlockDataProcessed /\ rx_in_progress /\ msg'.index < 8)
               => /\ rx_blocks' = [rx_blocks EXCEPT ![msg'.index] = msg'.block]
                  /\ rx_count' = rx_count + 1
                  /\ UNCHANGED <<statevars, rx_expected, rx_in_progress,
                                 program_ready_sem, exec_blocks, exec_count>>
         /\ ~(BlockDataProcessed /\ rx_in_progress /\ msg'.index < 8)
               => UNCHANGED <<statevars, rxvars>>
         /\ out' = <<>>]_vars

\* the second BlockData for slot 0 of one transfer has replaced the first
\* record and was counted
C31_Witness ==
    /\ msg.type = MSG_BLOCK_DATA /\ msg.index = 0 /\ msg.block = BLOCK_FORWARD
    /\ rx_in_progress /\ g_nblk = 2 /\ rx_count = 2 /\ ~g_clean
    /\ rx_blocks[0] = BLOCK_FORWARD /\ rx_blocks[1] = ZeroBlock
    /\ g_src = "A" /\ has_paired_mac

\* the callback is handed a ProgramEnd in this step, and it reaches the switch
ProgramEndProcessed ==
    /\ Received /\ msg'.type = MSG_PROGRAM_END /\ msg'.len >= 1
    /\ PassesMacFilter(msg'.src)

\* C32: each ProgramStart leads to at most one acceptance: after a ProgramEnd
\* processed in Receiving the receiver is Idle, accepted or not, it is only a
\* ProgramStart that opens a transfer again, and a ProgramEnd or BlockData
\* processed in Idle sends no ProgramAck, hands nothing to the executor and
\* changes no state
C32_OneAcceptancePerStart ==
    /\ [][(ProgramEndProcessed /\ rx_in_progress) => ~rx_in_progress']_vars
    /\ [][(~rx_in_progress /\ rx_in_progress')
            => (Received /\ msg'.type = MSG_PROGRAM_START)]_vars
    /\ [][((ProgramEndProcessed \/ BlockDataProcessed) /\ ~rx_in_progress)
            => (UNCHANGED <<statevars, rxvars>> /\ out' = <<>>)]_vars
    /\ [][(out' # <<>> /\ Head(out').type = MSG_PROGRAM_ACK)
            => (ProgramEndProcessed /\ rx_in_progress)]_vars
    /\ [][(program_ready_sem' # program_ready_sem \/ exec_blocks' # exec_blocks
              \/ exec_count' # exec_count)
            => (ProgramEndProcessed /\ rx_in_progress)]_vars

\* a second ProgramEnd from the paired board has followed the one that
\* completed a transfer of two records: nothing was sent, the receiver is Idle
C32_Witness ==
    /\ msg = ProgramEndMsg("A", SIZEOF_PROGRAM_END)
    /\ has_paired_mac /\ paired_mac = "A" /\ ~pairing_active
    /\ ~rx_in_progress /\ out = <<>>
    /\ g_n = 2 /\ g_nblk = 2 /\ g_sent[0] # NoBlock /\ g_sent[1] # NoBlock
    /\ ~g_clean
    /\ program_ready_sem = 1 /\ exec_count = 2

----------------------------------------------------------------------------
(* Claims on the board's transmission (SpecBoard)                          *)

\* the board is inside send_program_to_robot, between two esp_now_send
Sending == board_pc = "send_block"

\* the payloads sent by the step, without their destination
Payloads(o) == [k \in 1 .. Len(o) |-> [f \in DOMAIN o[k] \ {"dest"} |-> o[k][f]]]

StartPayload(n)    == [type |-> MSG_PROGRAM_START, block_count |-> n]
BlockPayload(i, b) == [type |-> MSG_BLOCK_DATA, index |-> i, block |-> b]
EndPayload         == [type |-> MSG_PROGRAM_END]

\* the step is one esp_now_send of send_program_to_robot
SendStep == (~Sending /\ Sending') \/ (Sending /\ (send_i' # send_i \/ ~Sending'))

\* C33: for a list of n blocks (1 <= n <= 8) sent by a Paired board, the
\* board emits exactly n + 2 messages in the order ProgramStart{n},
\* BlockData{0}, ..., BlockData{n-1}, ProgramEnd, the i-th BlockData carrying
\* the i-th record unchanged, and finishes sending without waiting for a
\* ProgramAck; receiving or not receiving a ProgramAck changes no board state
C33_SendsStartBlocksEnd ==
    \* ProgramStart{n} opens the transmission of a list of n records
    /\ [][(~Sending /\ Sending')
            => /\ board_has_paired_mac
               /\ Len(send_blocks') \in 1 .. 8
               /\ send_i' = 0
               /\ Payloads(out') = <<StartPayload(Len(send_blocks'))>>]_vars
    \* then the records in order, each once, then ProgramEnd
    /\ [][(Sending /\ SendStep)
            => IF send_i < Len(send_blocks)
               THEN /\ Payloads(out') = <<BlockPayload(send_i, send_blocks[send_i + 1])>>
                    /\ send_i' = send_i + 1 /\ send_blocks' = send_blocks
                    /\ Sending'
               ELSE /\ Payloads(out') = <<EndPayload>>
                    /\ ~Sending']_vars
    \* nothing else is sent meanwhile, and the list is not touched
    /\ [][(Sending /\ ~SendStep)
            => (out' = <<>> /\ UNCHANGED <<send_blocks, send_i>>)]_vars
    \* the next esp_now_send never waits for a frame from the robot
    /\ [](Sending => ENABLED BoardSendBlock)
    \* a ProgramAck changes nothing on the board
    /\ [][(Received /\ msg'.type = MSG_PROGRAM_ACK)
            => (UNCHANGED boardvars /\ out' = <<>>)]_vars

\* the second of two records has just been sent by the paired board
C33_Witness ==
    /\ Sending /\ Len(send_blocks) = 2 /\ send_i = 2
    /\ send_blocks = <<BLOCK_BEGIN, BLOCK_FORWARD>>
    /\ Payloads(out) = <<BlockPayload(1, BLOCK_FORWARD)>>
    /\ board_has_paired_mac

\* the main loop acts on a send request while at least one token is present
\* and validly read
SendRequestProcessed ==
    /\ board_pc = "check" /\ board_pc' # "check"
    /\ ~board_pairing_active /\ send_requested
    /\ \E ch \in Channels : eeprom_present[ch] /\ data_valid[ch]

----------------------------------------------------------------------------
(* Claims on repeat counts (SpecRepeats)                                   *)

\* the blocks of the range an invocation interprets, counted from 1
RangeOf(f) == [i \in 1 .. f.count |-> exec_blocks[f.base + i - 1]]

ParamBlocks == {BLOCK_PARAM_2, BLOCK_PARAM_3, BLOCK_PARAM_4, BLOCK_PARAM_FOREVER}

\* the Repeat p[i] is immediately followed by a parameter block
ParamAfter(p, i) == i + 1 <= Len(p) /\ p[i + 1] \in ParamBlocks

\* the resolved count of the Repeat p[i]
ResolvedCount(p, i) ==
    IF ~ParamAfter(p, i) THEN 1
    ELSE IF p[i + 1] = BLOCK_PARAM_2 THEN 2
    ELSE IF p[i + 1] = BLOCK_PARAM_3 THEN 3
    ELSE IF p[i + 1] = BLOCK_PARAM_4 THEN 4
    ELSE 1000

\* the Repeat p[i] has a matching EndRepeat in the range
HasCloser(p, i) ==
    \E j \in (i + 1) .. Len(p) :
        /\ Balance(p, i, j) = 0
        /\ \A k \in i .. (j - 1) : Balance(p, i, k) > 0

\* the position of that EndRepeat, or the position past the end of the range
BodyEnd(p, i) == IF HasCloser(p, i) THEN Closer(p, i) ELSE Len(p) + 1

\* the first position of the body of the Repeat p[i]
BodyStart(p, i) == i + 1 + (IF ParamAfter(p, i) THEN 1 ELSE 0)

\* an invocation called from the Repeat case returns in this step
BodyReturns ==
    /\ Len(stack) > 1
    /\ ReturnStep \/ (DispatchStep /\ BlockAt(Top, Top.pc) = BLOCK_END)

\* C35: for a Repeat with resolved count k (1 by default, 2, 3 or 4 from an
\* immediately following Param2/Param3/Param4, 1000 for ParamForever), the
\* blocks strictly between the Repeat (and its consumed parameter block) and
\* its matching EndRepeat are interpreted exactly k times as one sub-program,
\* after which execution continues with the block following that EndRepeat
\* and each later block is dispatched once; when no matching EndRepeat exists
\* the body extends to the end of the range and no block is dispatched after
\* the Repeat completes
C35_RepeatRunsBodyKTimes ==
    \* the Repeat starts the first of k interpretations of its body, or, the
    \* body being empty, goes on after the EndRepeat
    /\ [][(DispatchStep /\ BlockAt(Top, Top.pc) = BLOCK_REPEAT)
            => LET p == RangeOf(Top)
                   i == Top.pc + 1
                   k == ResolvedCount(p, i)
                   s == BodyStart(p, i)
                   e == BodyEnd(p, i)
               IN  IF e - s > 0
                   THEN /\ Len(stack') = Len(stack) + 1
                        /\ stack'[Len(stack')] = Frame(Top.base + s - 1, e - s)
                        /\ stack'[Len(stack)].iterations = k
                        /\ stack'[Len(stack)].r = 0
                        /\ stack'[Len(stack)].end_pc = e - 1
                        /\ stack'[Len(stack)].base = Top.base
                        /\ stack'[Len(stack)].count = Top.count
                   ELSE /\ Len(stack') = Len(stack)
                        /\ stack'[Len(stack)].pc = e
                        /\ stack'[Len(stack)].base = Top.base
                        /\ stack'[Len(stack)].count = Top.count]_vars
    \* each return of the body starts the next interpretation until k are
    \* done; then the block after the EndRepeat is next, and past the end of
    \* the range when there is no EndRepeat
    /\ [][BodyReturns
            => IF Caller.r + 1 < Caller.iterations
               THEN /\ Len(stack') = Len(stack)
                    /\ stack'[Len(stack')] = Frame(Top.base, Top.count)
                    /\ CallerNext = [Caller EXCEPT !.r = Caller.r + 1]
               ELSE /\ Len(stack') = Len(stack) - 1
                    /\ CallerNext.pc = Caller.end_pc + 1
                    /\ CallerNext.base = Caller.base
                    /\ CallerNext.count = Caller.count
                    /\ (Caller.end_pc = Caller.count
                          => CallerNext.pc > CallerNext.count)]_vars
    \* no block of a range is dispatched twice by one interpretation
    /\ [][(DispatchStep /\ Len(stack') = Len(stack))
            => stack'[Len(stack)].pc > Top.pc]_vars
    /\ [][DispatchStep => Top.pc < Top.count]_vars

\* Repeat, Param2, Repeat, Param4, Beep, EndRepeat, EndRepeat, Beep: the Beep
\* of the inner body has been dispatched in the fourth interpretation of the
\* inner body within the second interpretation of the outer one
C35_Witness ==
    /\ g_run_prog = RepeatExample
    /\ task_pc = "run" /\ Len(stack) = 3 /\ disp = 4
    /\ stack[1].iterations = 2 /\ stack[1].r = 1 /\ stack[1].end_pc = 6
    /\ stack[2].iterations = 4 /\ stack[2].r = 3
    /\ stack[2].base = 2 /\ stack[2].count = 4
    /\ Top.base = 4 /\ Top.count = 1 /\ Top.pc = 1

----------------------------------------------------------------------------
(* Claims on the indices the executor reads (SpecNesting)                  *)

\* count of the array passed to the top-level invocation
TopCount == stack[1].count

\* the blocks that look at the block after them
LooksAhead(t) == t \in MovementBlocks \cup {BLOCK_REPEAT}

\* indices into the top-level array read by the pass of the dispatch loop the
\* step runs: blocks[pc], blocks[next] when next < count, and blocks[s] for
\* s from start_pc up to the matching EndRepeat or the end of the range
IndicesRead ==
    LET f == Top
        t == BlockAt(f, f.pc)
        start_pc == PcAfterParam(f, f.pc) + 1
        end_pc == ScanEndRepeat(f, start_pc, 1)
    IN  {f.base + f.pc}
        \cup (IF LooksAhead(t) /\ f.pc + 1 < f.count THEN {f.base + f.pc + 1} ELSE {})
        \cup (IF t = BLOCK_REPEAT
              THEN {f.base + x : x \in start_pc .. (IF end_pc < f.count THEN end_pc
                                                     ELSE f.count - 1)}
              ELSE {})

\* C39: for every block array of length 0..8 and every nesting of recursive
\* invocations, every block index the executor reads (dispatch, parameter
\* lookahead, EndRepeat scan and Repeat body sub-range) lies inside
\* [0, count) of the array passed to the top-level invocation, and the
\* program counter never exceeds count + 1
C39_ReadsInsideProgram ==
    /\ [](task_pc = "run"
           => /\ TopCount = Len(g_run_prog) /\ TopCount \in 0 .. 8
              /\ stack[1].base = 0
              /\ \A n \in 1 .. Len(stack) :
                    /\ stack[n].pc \in 0 .. (stack[n].count + 1)
                    /\ stack[n].base >= 0
                    /\ stack[n].base + stack[n].count <= TopCount
                    /\ n > 1 => /\ stack[n].count > 0
                                /\ stack[n].base > stack[n - 1].base + stack[n - 1].pc
                                /\ stack[n].base + stack[n].count
                                       = stack[n - 1].base + stack[n - 1].end_pc
                                /\ stack[n - 1].end_pc <= stack[n - 1].count)
    /\ [][DispatchStep
            => /\ disp' = Top.base + Top.pc
               /\ \A x \in IndicesRead : x >= 0 /\ x < TopCount]_vars

\* Repeat, Forward, Repeat, Beep, EndRepeat, EndRepeat: the Beep of the inner
\* body, the last block of both bodies, has been dispatched
C39_Witness ==
    /\ g_run_prog = NestExample /\ task_pc = "run"
    /\ Len(stack) = 3 /\ disp = 3
    /\ Top.base = 3 /\ Top.count = 1 /\ Top.pc = 1
    /\ stack[2].base = 1 /\ stack[2].count = 4 /\ stack[2].end_pc = 3

----------------------------------------------------------------------------
(* Claims on the received counter (SpecFlood)                              *)

\* rx_count >= rx_expected while a transfer is open
Complete == rx_in_progress /\ rx_count >= rx_expected

\* C40: within one transfer, extra or repeated BlockData never turn a
\* complete transfer into an incomplete one: once the 8-bit received counter
\* has reached the expected count it stays at or above the expected count
\* until the next ProgramStart or ProgramEnd, for any number of BlockData
\* processed in between
C40_CompleteStaysComplete ==
    [][(BlockDataStep /\ Complete) => Complete']_vars

----------------------------------------------------------------------------
(* Claims on the board's end of the pairing handshake (SpecBoard)          *)

\* the board's callback is handed a well-formed PairAck in this step
PairAckStep ==
    Received /\ msg'.type = MSG_PAIR_ACK /\ msg'.len = SIZEOF_PAIR_ACK

\* a PairAck has been processed in this Pairing and the main loop has not
\* passed "if (pairing_success)" since
AckPending == board_pairing_active /\ board_pairing_success

\* the main loop passes "if (pairing_active)" in this step
PairingPassStep ==
    board_pc = "check" /\ board_pc' # "check" /\ board_pairing_active

\* a PairAck{addr} processed in Pairing records addr as the target
PairAckRecorded ==
    [][(PairAckStep /\ board_pairing_active)
         => /\ target_mac' = msg'.mac
            /\ AckPending']_vars

\* the recorded address is still the target when the main loop comes by
PairAckKept ==
    [][(AckPending /\ ~PairingPassStep)
         => /\ AckPending'
            /\ target_mac' = target_mac
            /\ board_has_paired_mac']_vars

\* the pass after a PairAck leaves Pairing, Paired with the recorded address
\* persisted, and broadcasts nothing
PairAckSettled ==
    [][(AckPending /\ PairingPassStep)
         => /\ ~board_pairing_active'
            /\ board_has_paired_mac'
            /\ target_mac' = target_mac
            /\ target_mac' \in RobotMacs
            /\ board_nvs_paired_mac' = target_mac'
            /\ out' = <<>>]_vars

\* outside Pairing no PairRequest is sent
NoRequestOutsidePairing ==
    [][~board_pairing_active
         => \A k \in 1 .. Len(out') : out'[k].type # MSG_PAIR_REQUEST]_vars

\* a PairAck processed outside Pairing changes nothing on the board
PairAckIgnoredOutsidePairing ==
    [][(PairAckStep /\ ~board_pairing_active) => UNCHANGED boardvars]_vars

\* C37: a well-formed PairAck{addr} processed while the board is in Pairing
\* records addr as the target peer, and on its next main-loop pass the board
\* leaves Pairing in state Paired with addr persisted and stops broadcasting
\* PairRequest; a PairAck processed while the board is not in Pairing changes
\* no board state
C37_PairAckPairsBoard ==
    /\ PairAckRecorded
    /\ PairAckKept
    /\ PairAckSettled
    /\ NoRequestOutsidePairing
    /\ PairAckIgnoredOutsidePairing

----------------------------------------------------------------------------
(* Claims on the blink (SpecEyes)                                          *)

BlinkOrder == {<<"IDLE", "CLOSING">>, <<"CLOSING", "OPENING">>, <<"OPENING", "IDLE">>}

\* ticks of FRAME_MS that use up ms milliseconds
TicksFor(ms) == (ms + FRAME_MS - 1) \div FRAME_MS

\* ticks a whole blink takes: 80 ms closing then 120 ms opening
BlinkTicks == TicksFor(BLINK_CLOSE_MS) + TicksFor(BLINK_OPEN_MS)

\* ticks until the blink under way is back in BLINK_IDLE
TicksLeft(e) ==
    IF e.s_blink_phase = "CLOSING"
    THEN TicksFor(e.s_blink_timer) + TicksFor(BLINK_OPEN_MS)
    ELSE IF e.s_blink_phase = "OPENING" THEN TicksFor(e.s_blink_timer)
    ELSE 0

\* C36: the blink phase only changes in the order Idle, Closing, Opening,
\* Idle; a blink that has started returns to Idle after a bounded number of
\* ticks (80 ms closing then 120 ms opening at 33 ms per tick: every tick of a
\* blink brings the return one tick closer, seven ticks in all) and the blink
\* closure is 0 at the end of every tick spent in Idle; a blink request made
\* while Idle starts Closing on the next tick, and a request made during a
\* blink is consumed on the next tick without starting or queuing another
\* blink
C36_BlinkCycle ==
    /\ [][eyes'.s_blink_phase # eyes.s_blink_phase
            => /\ <<eyes.s_blink_phase, eyes'.s_blink_phase>> \in BlinkOrder
               /\ TickStep]_vars
    /\ [](eyes.s_blink_phase # "IDLE" => eyes.s_blink_timer > 0)
    /\ [][(TickStep /\ eyes'.s_blink_phase # "IDLE")
            => TicksLeft(eyes') = (IF eyes.s_blink_phase = "IDLE" THEN BlinkTicks
                                   ELSE TicksLeft(eyes)) - 1]_vars
    /\ [][(TickStep /\ eyes.s_blink_phase # "IDLE" /\ eyes'.s_blink_phase = "IDLE")
            => TicksLeft(eyes) = 1]_vars
    /\ [][~TickStep => eyes'.s_blink_timer = eyes.s_blink_timer]_vars
    /\ [][(TickStep /\ eyes'.s_blink_phase = "IDLE")
            => eyes'.s_current.blink_lid = 0]_vars
    /\ [][(TickStep /\ eyes.s_blink_requested)
            => /\ ~eyes'.s_blink_requested
               /\ eyes.s_blink_phase = "IDLE" => eyes'.s_blink_phase = "CLOSING"]_vars

\* the tick just made consumed a request during the closing of a blink: the
\* blink is two ticks old, the timer of the automatic blink was drawn anew in
\* this tick, and no request is left
C36_Witness ==
    /\ g_eyes.last = "eyes_tick"
    /\ eyes.s_blink_phase = "CLOSING"
    /\ eyes.s_blink_timer = BLINK_CLOSE_MS - 2 * FRAME_MS
    /\ eyes.s_auto_blink_timer \in RandomPicks(2000, 6000)
    /\ ~eyes.s_blink_requested

----------------------------------------------------------------------------
(* Claims on one board and two robots (SpecPairing)                        *)

\* no device is in pairing mode
NobodyPairing ==
    ~pairing_active /\ ~other.st.pairing_active /\ ~board_pairing_active

\* the robot with statics st is Paired to the board's address
PairedToBoard(st) == st.has_paired_mac /\ st.paired_mac = BOARD_MAC

\* the board is Paired to the address mac
BoardPairedTo(mac) == board_has_paired_mac /\ target_mac = mac

\* C38: pairing is mutual once it has settled: with one board and two robots
\* that may all be in Pairing at once, whenever no device is in Pairing and a
\* robot is Paired to the board's address, the board is Paired to that
\* robot's address
C38_PairingIsMutual ==
    [](NobodyPairing
         => /\ PairedToBoard(Statics) => BoardPairedTo(other.me)
            /\ PairedToBoard(other.st) => BoardPairedTo(other.it))

\* nothing is on the air, every main loop is between two passes, and each
\* device has persisted what it holds
AllAtRest ==
    /\ Calm /\ NobodyPairing
    /\ main_pc = "poll" /\ other.st.main_pc = "poll" /\ board_pc = "poll"
    /\ nvs_paired_mac = (IF has_paired_mac THEN paired_mac ELSE "none")
    /\ other.st.nvs_paired_mac = (IF other.st.has_paired_mac THEN other.st.paired_mac
                                  ELSE "none")
    /\ board_nvs_paired_mac = (IF board_has_paired_mac THEN target_mac ELSE "none")

\* both robots stay Paired to the board while the board is Paired to one of them
BothRobotsPaired ==
    /\ AllAtRest
    /\ PairedToBoard(Statics) /\ PairedToBoard(other.st)
    /\ board_has_paired_mac

=============================================================================
